---------------------------- MODULE Spec2Model ----------------------------
(***************************************************************************)
(* Model of the voxel engine: the block grid (world.c), the 3D DDA         *)
(* raycaster (raycaster.c), the player physics and the block interaction   *)
(* (player.c), and the world file (world_save / world_load).               *)
(*                                                                         *)
(* Numbers.  A C float coordinate is modelled as a fixed-point integer     *)
(* counted in 1/Unit of a cell, and arithmetic on it is exact.  A ray      *)
(* direction is an integer vector d with components in {-1,0,1};           *)
(* vec3_normalize(d) = d/|d| is kept symbolically as the pair (d, |d|^2).  *)
(* A ray parameter t of the code (a distance along the normalized          *)
(* direction) is kept as T with  t = T * sqrt(|d|^2) / Unit, so that the   *)
(* point  ray_pos + ray_dir * t  is  pos + d * T  and every comparison of  *)
(* the code is decided on integers.  RayHit.brightness is left out.        *)
(***************************************************************************)
EXTENDS Integers, Sequences, FiniteSets, TLC

VARIABLES world, player, ray, frame_time, file, terminal, game, last, prev,
          steps

vars ==
  <<world, player, ray, frame_time, file, terminal, game, last, prev, steps>>

-----------------------------------------------------------------------------
(* Bounds of the model *)

MaxW == 3
MaxH == 2
MaxD == 2

(* Fixed-point resolution of a float coordinate: Unit steps per cell *)
Unit == 20

RECURSIVE Pow2(_)
Pow2(n) == IF n <= 0 THEN 1 ELSE 2 * Pow2(n - 1)

(* the number of binary digits of n >= 0 *)
RECURSIVE BitLen(_)
BitLen(n) == IF n = 0 THEN 0 ELSE 1 + BitLen(n \div 2)

(* a * n / d, truncated towards zero *)
Scale(a, n, d) ==
  IF a >= 0 THEN (a * n) \div d ELSE 0 - ((0 - a) * n) \div d

(* floor of the square root *)
ISqrt(n) == CHOOSE r \in 0..n : r * r <= n /\ (r + 1) * (r + 1) > n

(* a handler is a sequence of steps over its locals; Then(x, F) is the     *)
(* step F taken from the value x of the steps before it                    *)
Then(x, F(_)) == CHOOSE r \in {F(s) : s \in {x}} : TRUE

(* Fixed-point resolution of an angle: 1 radian is 2^ANGLE_BITS steps *)
ANGLE_BITS == 26

(* the significand of a float has 24 binary digits *)
F32_DIGITS == 24

(* the float nearest to v (ties to even), for a v counted in steps that    *)
(* are themselves floats: magnitudes of up to F32_DIGITS digits are kept,  *)
(* longer ones lose their last digits                                      *)
RoundF32(v) ==
  LET a == IF v < 0 THEN 0 - v ELSE v
      grid == Pow2(BitLen(a) - F32_DIGITS)
      q == a \div grid
      r == a % grid
      up == 2 * r > grid \/ (2 * r = grid /\ q % 2 = 1)
      n == (IF up THEN q + 1 ELSE q) * grid
  IN  IF v < 0 THEN 0 - n ELSE n

(* config.h *)
MAX_BLOCK_TYPES == 16
BLOCK_AIR == 0
BLOCK_DIRT == 1
BLOCK_GRASS == 2
BLOCK_STONE == 3
BLOCK_WOOD == 4
BLOCK_LEAVES == 5
BLOCK_WATER == 6
BLOCK_SAND == 7
BLOCK_BRICK == 8

(* 1e30f, the t_max / t_delta of an axis the ray does not move along *)
T_INFINITE == 1000000

(* what a read outside the allocated rows yields *)
GARBAGE == 255

None == [op |-> "none"]

-----------------------------------------------------------------------------
(* world.c *)

(* default_block_types[i].solid; entries past Brick are zero-initialised.   *)
(* world->block_types is the copy of this table that world_create makes;   *)
(* nothing writes it afterwards, so the model reads the table itself       *)
default_block_types ==
  [i \in 0..(MAX_BLOCK_TYPES - 1) |->
     [solid |-> i \in {BLOCK_DIRT, BLOCK_GRASS, BLOCK_STONE, BLOCK_WOOD,
                       BLOCK_LEAVES, BLOCK_SAND, BLOCK_BRICK}]]

Cells(w, h, d) == (0..(w - 1)) \X (0..(h - 1)) \X (0..(d - 1))

(* 0.5f and 1.0f as IEEE-754 single bit patterns *)
F32_HALF == 1056964608
F32_ONE == 1065353216

world_create(width, height, depth) ==
  [width |-> width, height |-> height, depth |-> depth,
   blocks |-> [c \in Cells(width, height, depth) |-> BLOCK_AIR],
   num_block_types |-> MAX_BLOCK_TYPES,
   time_of_day |-> F32_HALF,
   sky_brightness |-> F32_ONE]

world_is_valid_position_inclusive(w, x, y, z) ==
  /\ x >= 0 /\ x <= w.width
  /\ y >= 0 /\ y <= w.height
  /\ z >= 0 /\ z <= w.depth

world_is_valid_position(w, x, y, z) ==
  /\ x >= 0 /\ x < w.width
  /\ y >= 0 /\ y < w.height
  /\ z >= 0 /\ z < w.depth

(* world->blocks[z][y][x] *)
BlockAt(w, x, y, z) ==
  IF <<x, y, z>> \in DOMAIN w.blocks THEN w.blocks[<<x, y, z>>] ELSE GARBAGE

world_get_block(w, x, y, z) ==
  IF ~world_is_valid_position(w, x, y, z) THEN BLOCK_AIR
  ELSE BlockAt(w, x, y, z)

(* world_set_block storing an id beyond the registry *)
world_set_block_shifted(w, x, y, z, type) ==
  IF ~world_is_valid_position(w, x, y, z) THEN w
  ELSE [w EXCEPT !.blocks =
          [c \in (DOMAIN w.blocks) \cup {<<x, y, z>>} |->
             IF c = <<x, y, z>> THEN type + MAX_BLOCK_TYPES
             ELSE w.blocks[c]]]

world_set_block(w, x, y, z, type) ==
  IF ~world_is_valid_position(w, x, y, z) THEN w
  ELSE [w EXCEPT !.blocks =
          [c \in (DOMAIN w.blocks) \cup {<<x, y, z>>} |->
             IF c = <<x, y, z>> THEN type ELSE w.blocks[c]]]

world_is_solid(w, x, y, z) ==
  IF ~world_is_valid_position(w, x, y, z) THEN FALSE
  ELSE LET type == BlockAt(w, x, y, z)
       IN  IF type >= w.num_block_types THEN FALSE
           ELSE default_block_types[type].solid

-----------------------------------------------------------------------------
(* world.c: persistence.  A file is the sequence of its bytes; an int and  *)
(* a float are four bytes, least significant first, a float being the      *)
(* integer of its bit pattern                                              *)

BYTE == 256

(* the object representation of a 4-byte int or float (two's complement)   *)
Bytes4(n) ==
  <<n % BYTE, (n \div BYTE) % BYTE, (n \div (BYTE * BYTE)) % BYTE,
    (n \div (BYTE * BYTE * BYTE)) % BYTE>>

(* the int or float held by four bytes *)
Value4(b) ==
  LET top == IF b[4] >= BYTE \div 2 THEN b[4] - BYTE ELSE b[4]
  IN  b[1] + BYTE * b[2] + BYTE * BYTE * b[3] + BYTE * BYTE * BYTE * top

(* the size of the dimensions at the head of a file, and of the two floats *)
HEADER_SIZE == 12
TRAILER_SIZE == 8

SavedCellXMajor(w, i) ==
  <<i \div (w.height * w.depth), (i \div w.depth) % w.height, i % w.depth>>

(* the cell whose block the loops of world_save write as byte i of the     *)
(* block section                                                           *)
SavedCell(w, i) ==
  <<i % w.width, (i \div w.width) % w.height, i \div (w.width * w.height)>>

(* the place in the block section of the byte that the loops of           *)
(* world_load read into cell c                                             *)
LoadedIndex(w, c) == (c[3] * w.height + c[2]) * w.width + c[1]

NULL == [null |-> TRUE]

(* world_save(world, filename): the value returned and the file left,      *)
(* where the file can be opened or not and `written' bytes reach it        *)
world_save(w, old, open_ok, written) ==
  IF ~open_ok THEN [result |-> 0, file |-> old]
  ELSE
    LET n == w.width * w.height * w.depth
        data == Bytes4(w.width) \o Bytes4(w.height) \o Bytes4(w.depth)
                  \o [i \in 1..n |-> BlockAt(w, SavedCell(w, i - 1)[1],
                                             SavedCell(w, i - 1)[2],
                                             SavedCell(w, i - 1)[3])]
                  \o Bytes4(w.time_of_day) \o Bytes4(w.sky_brightness)
        m == IF written < Len(data) THEN written ELSE Len(data)
    IN  [result |-> 1, file |-> SubSeq(data, 1, m)]

(* the blocks of memory world_create(width, height, depth) allocates: the *)
(* World, the table of layers, each layer, each row, and the registry     *)
world_create_allocations(width, height, depth) ==
  {<<"world">>, <<"blocks">>, <<"block_types">>}
    \cup {<<"blocks", z>> : z \in 0..(depth - 1)}
    \cup {<<"blocks", z, y>> : z \in 0..(depth - 1), y \in 0..(height - 1)}

(* the blocks of memory world_destroy(w) frees *)
world_destroy_frees(w) ==
  {<<"blocks", z, y>> : z \in 0..(w.depth - 1), y \in 0..(w.height - 1)}
    \cup {<<"blocks", z>> : z \in 0..(w.depth - 1)}
    \cup {<<"blocks">>, <<"block_types">>, <<"world">>}

(* world_load without the checks of the last two reads *)
world_load_unchecked(f, open_ok, readable) ==
  LET m == IF readable < Len(f) THEN readable ELSE Len(f)
      data == SubSeq(f, 1, m)
  IN  IF ~open_ok \/ Len(data) < HEADER_SIZE THEN NULL
      ELSE
        LET width == Value4(SubSeq(data, 1, 4))
            height == Value4(SubSeq(data, 5, 8))
            depth == Value4(SubSeq(data, 9, 12))
            w == world_create(width, height, depth)
            n == width * height * depth
        IN  IF Len(data) < HEADER_SIZE + n THEN NULL
            ELSE [w EXCEPT
                    !.blocks = [c \in DOMAIN w.blocks |->
                                  data[HEADER_SIZE + LoadedIndex(w, c) + 1]]]

(* world_load(filename): the world returned, or NULL, where the file can   *)
(* be opened or not and `readable' of its bytes can be read                *)
world_load(f, open_ok, readable) ==
  LET m == IF readable < Len(f) THEN readable ELSE Len(f)
      data == SubSeq(f, 1, m)
  IN  IF ~open_ok \/ Len(data) < HEADER_SIZE THEN NULL
      ELSE
        LET width == Value4(SubSeq(data, 1, 4))
            height == Value4(SubSeq(data, 5, 8))
            depth == Value4(SubSeq(data, 9, 12))
            w == world_create(width, height, depth)
            n == width * height * depth
        IN  IF Len(data) < HEADER_SIZE + n + TRAILER_SIZE THEN NULL
            ELSE [w EXCEPT
                    !.blocks = [c \in DOMAIN w.blocks |->
                                  data[HEADER_SIZE + LoadedIndex(w, c) + 1]],
                    !.time_of_day =
                      Value4(SubSeq(data, HEADER_SIZE + n + 1,
                                    HEADER_SIZE + n + 4)),
                    !.sky_brightness =
                      Value4(SubSeq(data, HEADER_SIZE + n + 5,
                                    HEADER_SIZE + n + 8))]

(* the blocks of memory world_load has allocated and not freed when it    *)
(* returns                                                                 *)
world_load_live(f, open_ok, readable) ==
  LET m == IF readable < Len(f) THEN readable ELSE Len(f)
      data == SubSeq(f, 1, m)
  IN  IF ~open_ok \/ Len(data) < HEADER_SIZE THEN {}
      ELSE
        LET width == Value4(SubSeq(data, 1, 4))
            height == Value4(SubSeq(data, 5, 8))
            depth == Value4(SubSeq(data, 9, 12))
            made == world_create_allocations(width, height, depth)
        IN  IF world_load(f, open_ok, readable) = NULL
            THEN made \ world_destroy_frees(world_create(width, height, depth))
            ELSE made

-----------------------------------------------------------------------------
(* raycaster.c *)

Floor(p) == p \div Unit

Abs(n) == IF n < 0 THEN 0 - n ELSE n

(* |v|^2 of an integer vector *)
Len2(v) == v[1] * v[1] + v[2] * v[2] + v[3] * v[3]

(* index of the outward normal: +X,-X,+Y,-Y,+Z,-Z *)
face_normals ==
  <<  <<1, 0, 0>>, <<-1, 0, 0>>, <<0, 1, 0>>, <<0, -1, 0>>,
      <<0, 0, 1>>, <<0, 0, -1>> >>

(* a distance  t * sqrt(n2) / Unit  cells *)
Dist(t, n2) == [t |-> t, n2 |-> n2]

(* distance a < distance b; T_INFINITE stands for 1e30f *)
DistLess(a, b) ==
  IF a.t >= T_INFINITE THEN FALSE
  ELSE IF b.t >= T_INFINITE THEN TRUE
  ELSE a.t * a.t * a.n2 < b.t * b.t * b.n2

DistEq(a, b) == ~DistLess(a, b) /\ ~DistLess(b, a)

DistLeq(a, b) == ~DistLess(b, a)

(* step, t_delta and initial t_max of one axis (raycaster.c 54-100) *)
AxisStep(d) == IF d = 0 THEN 0 ELSE IF d > 0 THEN 1 ELSE -1

AxisDelta(d) == IF d = 0 THEN T_INFINITE ELSE Unit \div Abs(d)

AxisTMax(d, p) ==
  IF d = 0 THEN T_INFINITE
  ELSE IF d > 0 THEN (AxisDelta(d) * ((Floor(p) + 1) * Unit - p)) \div Unit
  ELSE (AxisDelta(d) * (p - Floor(p) * Unit)) \div Unit

(* the axis the loop steps along: 1 = X, 2 = Y, 3 = Z *)
(* the axis stepped if a tie went to the earlier axis *)
ClosestAxisEarlier(tmax) ==
  IF tmax[1] <= tmax[2] /\ tmax[1] <= tmax[3] THEN 1
  ELSE IF tmax[2] <= tmax[3] THEN 2
  ELSE 3

ClosestAxis(tmax) ==
  IF tmax[1] < tmax[2] /\ tmax[1] < tmax[3] THEN 1
  ELSE IF tmax[2] < tmax[3] THEN 2
  ELSE 3

FaceOf(axis, step) == IF step > 0 THEN 2 * axis - 1 ELSE 2 * axis - 2

IsHitBlockSolidOnly(w, block_type) ==
  block_type < w.num_block_types /\ default_block_types[block_type].solid

(* the test that ends the traversal with a hit *)
IsHitBlock(w, block_type) == block_type # BLOCK_AIR

(* the test that ends the traversal with a miss *)
OutOfBounds(w, m) ==
  \/ m[1] < 0 \/ m[2] < 0 \/ m[3] < 0
  \/ m[1] >= w.width \/ m[2] >= w.height \/ m[3] >= w.depth

MissDistanceOfLoop(max_distance, distance) == distance

(* result.distance of a ray that hit nothing *)
MissDistance(max_distance, distance) == max_distance

MissResult(c, s) ==
  [hit |-> FALSE, block_type |-> 0,
   distance |-> MissDistance(Dist(c.max, 1), Dist(s.distance, c.n2)),
   position |-> <<0, 0, 0>>, normal |-> <<0, 0, 0>>, face |-> 0,
   cell |-> s.map, path |-> s.path, trace |-> s.trace]

(* the while loop of cast_ray (raycaster.c 106-157) *)
RECURSIVE RayLoop(_, _, _)
RayLoop(w, c, s) ==
  IF ~DistLess(Dist(s.distance, c.n2), Dist(c.max, 1)) THEN MissResult(c, s)
  ELSE
    LET axis == ClosestAxis(s.tmax)
        distance == s.tmax[axis]
        tmax == [s.tmax EXCEPT ![axis] = @ + c.tdelta[axis]]
        map == [s.map EXCEPT ![axis] = @ + c.step[axis]]
        face == FaceOf(axis, c.step[axis])
        s2 == [tmax |-> tmax, map |-> map, distance |-> distance,
               path |-> Append(s.path, map),
               trace |-> Append(s.trace, [tmax |-> s.tmax, axis |-> axis])]
    IN  IF OutOfBounds(w, map) THEN MissResult(c, s2)
        ELSE
          LET block_type == world_get_block(w, map[1], map[2], map[3])
          IN  IF IsHitBlock(w, block_type)
              THEN [hit |-> TRUE, block_type |-> block_type,
                    distance |-> Dist(distance, c.n2),
                    position |->
                      [i \in 1..3 |->
                         IF distance >= T_INFINITE THEN c.pos[i]
                         ELSE c.pos[i] + c.dir[i] * distance],
                    normal |-> face_normals[face + 1],
                    face |-> face,
                    cell |-> map, path |-> s2.path, trace |-> s2.trace]
              ELSE RayLoop(w, c, s2)

(* cast_ray(world, position, direction, max_distance); max_distance in     *)
(* 1/Unit cells                                                            *)
cast_ray(w, position, direction, max_distance) ==
  LET c == [pos |-> position, dir |-> direction, n2 |-> Len2(direction),
            max |-> max_distance,
            tdelta |-> [i \in 1..3 |-> AxisDelta(direction[i])],
            step |-> [i \in 1..3 |-> AxisStep(direction[i])]]
      s == [tmax |-> [i \in 1..3 |-> AxisTMax(direction[i], position[i])],
            map |-> [i \in 1..3 |-> Floor(position[i])],
            distance |-> 0,
            path |-> <<>>, trace |-> <<>>]
  IN  RayLoop(w, c, s)

-----------------------------------------------------------------------------
(* vector.c, player.c: creation and view *)

WORLD_WIDTH == 64
WORLD_HEIGHT == 64
GROUND_HEIGHT == 3

(* 1.6f, 1.8f, 0.05f, 0.4f in 1/Unit *)
EYE_HEIGHT == (16 * Unit) \div 10
PLAYER_HEIGHT == (18 * Unit) \div 10
GRAVITY == (5 * Unit) \div 100
JUMP_FORCE == (4 * Unit) \div 10

(* the maximum distance of the interaction rays, 5.0f *)
REACH == 5 * Unit

(* the range of a uint8_t inventory count *)
UINT8 == 256

player_create ==
  [position |-> <<(WORLD_WIDTH * Unit) \div 2, (WORLD_HEIGHT * Unit) \div 2,
                  GROUND_HEIGHT * Unit + EYE_HEIGHT>>,
   velocity |-> <<0, 0, 0>>,
   rotation |-> [pitch |-> 0, yaw |-> 0],
   height |-> PLAYER_HEIGHT,
   grounded |-> FALSE,
   flying |-> FALSE,
   health |-> 1000,
   stamina |-> 1000,
   selected_slot |-> 1,
   inventory |->
     [i \in 0..(MAX_BLOCK_TYPES - 1) |->
        IF i \in {BLOCK_DIRT, BLOCK_STONE, BLOCK_GRASS} THEN 64
        ELSE IF i \in {BLOCK_WOOD, BLOCK_BRICK} THEN 16
        ELSE 0]]

(* rotation.x (pitch) and rotation.y (yaw) are floats, in radians; 2.0f *  *)
(* M_PI is a double, here to the nearest step                              *)
TWO_PI == 421657428

(* the float of k quarter turns, (float)(k * M_PI / 2) *)
QuarterTurn(k) == RoundF32((k * TWO_PI) \div 4)

(* the float of an eighth of a turn, (float)(M_PI / 4) *)
EighthTurn == RoundF32(TWO_PI \div 8)

(* the rotations of the interaction checks: the view directions they give  *)
(* have components -1, 0 and 1                                             *)
Pitches == {0 - EighthTurn, 0, EighthTurn}
Yaws == {QuarterTurn(k) : k \in 0..3}

(* the quarter turn that a yaw of Yaws is *)
Quadrant(yaw) == ((yaw + (TWO_PI \div 8)) \div (TWO_PI \div 4)) % 4

CosQ(yaw) ==
  IF Quadrant(yaw) = 0 THEN 1 ELSE IF Quadrant(yaw) = 2 THEN -1 ELSE 0
SinQ(yaw) ==
  IF Quadrant(yaw) = 1 THEN 1 ELSE IF Quadrant(yaw) = 3 THEN -1 ELSE 0

(* vec3_from_angles(pitch, yaw) = (cos p cos y, cos p sin y, sin p), here  *)
(* scaled by 1/cos p > 0: for p in {-pi/4, 0, pi/4} that is                *)
(* (cos y, sin y, tan p), and cast_ray normalizes its direction            *)
vec3_from_angles(pitch, yaw) ==
  <<CosQ(yaw), SinQ(yaw), IF pitch > 0 THEN 1 ELSE IF pitch < 0 THEN -1 ELSE 0>>

player_get_camera_position(p) == p.position

player_get_view_direction(p) ==
  vec3_from_angles(p.rotation.pitch, p.rotation.yaw)

(* the pitch limit, 1.5f *)
PITCH_LIMIT == 3 * Pow2(ANGLE_BITS - 1)

(* while (rotation.y >= 2.0f * M_PI) rotation.y -= 2.0f * M_PI; *)
RECURSIVE WrapDown(_)
WrapDown(y) == IF y >= TWO_PI THEN WrapDown(RoundF32(y - TWO_PI)) ELSE y

(* while (rotation.y < 0.0f) rotation.y += 2.0f * M_PI; *)
RECURSIVE WrapUp(_)
WrapUp(y) == IF y < 0 THEN WrapUp(RoundF32(y + TWO_PI)) ELSE y

(* player_rotate(player, pitch, yaw) *)
player_rotate(p, pitch, yaw) ==
  LET x == RoundF32(p.rotation.pitch + pitch)
      y == RoundF32(p.rotation.yaw + yaw)
  IN  [p EXCEPT
         !.rotation = [pitch |-> IF x > PITCH_LIMIT THEN PITCH_LIMIT
                                 ELSE IF x < 0 - PITCH_LIMIT
                                 THEN 0 - PITCH_LIMIT ELSE x,
                       yaw |-> WrapUp(WrapDown(y))]]

(* PLAYER_SPEED, 0.15f, and PLAYER_TURN_SPEED, 0.05f *)
PLAYER_SPEED == (15 * Unit) \div 100
PLAYER_TURN_SPEED == RoundF32((5 * Pow2(ANGLE_BITS)) \div 100)

(* player_get_forward_vector and player_get_right_vector, for a yaw of     *)
(* Yaws                                                                    *)
player_get_forward_vector(p) == <<CosQ(p.rotation.yaw), SinQ(p.rotation.yaw), 0>>
player_get_right_vector(p) ==
  <<CosQ(p.rotation.yaw + QuarterTurn(1)),
    SinQ(p.rotation.yaw + QuarterTurn(1)), 0>>

(* player_move(player, world, forward, right, delta_time), forward and     *)
(* right in {-1, 0, 1}                                                     *)
player_move(p, w, forward, right, delta_time) ==
  LET f == player_get_forward_vector(p)
      r == player_get_right_vector(p)
      move == [i \in 1..3 |-> f[i] * forward + r[i] * right]
      n2 == Len2(move)
      speed == IF p.flying THEN PLAYER_SPEED * 2 ELSE PLAYER_SPEED
      step == [i \in 1..3 |->
                 IF n2 = 0 THEN 0
                 ELSE Scale(move[i] * speed, 1000, ISqrt(n2 * 1000000))]
      tired == delta_time > 0 /\ n2 > 0 /\ p.grounded /\ p.stamina > 0
  IN  [p EXCEPT
         !.stamina = IF tired THEN (IF @ - 2 < 0 THEN 0 ELSE @ - 2) ELSE @,
         !.velocity = <<@[1] + step[1], @[2] + step[2], @[3]>>]

(* player_jump(player) *)
player_jump(p) ==
  IF p.grounded
  THEN [p EXCEPT !.velocity[3] = JUMP_FORCE, !.grounded = FALSE]
  ELSE IF p.flying THEN [p EXCEPT !.velocity[3] = Scale(JUMP_FORCE, 1, 2)]
  ELSE p

(* player_select_slot(player, slot) *)
player_select_slot(p, slot) ==
  IF slot >= 1 /\ slot <= 9 THEN [p EXCEPT !.selected_slot = slot] ELSE p

(* player_get_selected_block(player) *)
player_get_selected_block(p) == p.selected_slot

-----------------------------------------------------------------------------
(* player.c: block interaction *)

(* the cell player_break_block clears (player.c 340-342) *)
BreakCell(hit) == [i \in 1..3 |-> Floor(hit.position[i])]

(* the cell player_place_block writes (player.c 310-312) *)
PlaceCell(hit) ==
  [i \in 1..3 |-> Floor(hit.position[i] + hit.normal[i] * (Unit \div 2))]

(* inventory[block_type]++ on a uint8_t *)
InventoryAdd(inventory, block_type) ==
  IF block_type \in DOMAIN inventory
  THEN [inventory EXCEPT ![block_type] = (@ + 1) % UINT8]
  ELSE inventory

InventoryKeep(inventory, block_type) == inventory

(* inventory[block_type]-- on a uint8_t *)
InventoryTake(inventory, block_type) ==
  IF block_type \in DOMAIN inventory
  THEN [inventory EXCEPT ![block_type] = (@ + UINT8 - 1) % UINT8]
  ELSE inventory

(* player_break_block: the player and the world it leaves, with the ray    *)
(* hit and the cell it cleared                                             *)
player_break_block(p, w) ==
  LET hit == cast_ray(w, player_get_camera_position(p),
                      player_get_view_direction(p), REACH)
      c == BreakCell(hit)
      block_type == world_get_block(w, c[1], c[2], c[3])
  IN  IF hit.hit
      THEN [player |-> [p EXCEPT !.inventory = InventoryAdd(@, block_type)],
            world |-> world_set_block(w, c[1], c[2], c[3], BLOCK_AIR),
            hit |-> hit, cell |-> c, block_type |-> block_type,
            wrote |-> TRUE]
      ELSE [player |-> p, world |-> w, hit |-> hit, cell |-> c,
            block_type |-> BLOCK_AIR, wrote |-> FALSE]

(* player_place_block without the test of the count *)
player_place_block_unchecked(p, w, block_type) ==
  LET hit == cast_ray(w, player_get_camera_position(p),
                      player_get_view_direction(p), REACH)
      c == PlaceCell(hit)
  IN  IF hit.hit /\ world_is_valid_position(w, c[1], c[2], c[3])
      THEN [player |-> [p EXCEPT !.inventory = InventoryTake(@, block_type)],
            world |-> world_set_block(w, c[1], c[2], c[3], block_type),
            hit |-> hit, cell |-> c, block_type |-> block_type,
            wrote |-> TRUE]
      ELSE [player |-> p, world |-> w, hit |-> hit, cell |-> c,
            block_type |-> block_type, wrote |-> FALSE]

(* player_place_block *)
player_place_block(p, w, block_type) ==
  LET hit == cast_ray(w, player_get_camera_position(p),
                      player_get_view_direction(p), REACH)
      c == PlaceCell(hit)
  IN  IF /\ hit.hit
         /\ world_is_valid_position(w, c[1], c[2], c[3])
         /\ p.inventory[block_type] > 0
      THEN [player |-> [p EXCEPT !.inventory = InventoryTake(@, block_type)],
            world |-> world_set_block(w, c[1], c[2], c[3], block_type),
            hit |-> hit, cell |-> c, block_type |-> block_type,
            wrote |-> TRUE]
      ELSE [player |-> p, world |-> w, hit |-> hit, cell |-> c,
            block_type |-> block_type, wrote |-> FALSE]

(* player_raycast_block: the value returned, what it stores through the  *)
(* two pointers, and the player and the world it leaves                    *)
player_raycast_block(p, w) ==
  LET hit == cast_ray(w, player_get_camera_position(p),
                      player_get_view_direction(p), REACH)
  IN  [result |-> IF hit.hit THEN 1 ELSE 0,
       out |-> IF hit.hit
               THEN [position |-> hit.position, normal |-> hit.normal]
               ELSE None,
       player |-> p, world |-> w, hit |-> hit]

(* an interaction that takes the block it looks at *)
player_interact_taking(p, w) ==
  LET r == player_break_block(p, w)
  IN  [player |-> r.player, world |-> r.world, hit |-> r.hit]

(* player_interact: the player and the world it leaves, with the ray hit *)
player_interact(p, w) ==
  LET hit == cast_ray(w, player_get_camera_position(p),
                      player_get_view_direction(p), REACH)
  IN  [player |-> p, world |-> w, hit |-> hit]

-----------------------------------------------------------------------------
(* player.c: physics.  Velocities are counted in 1/Unit cells per second,  *)
(* delta_time in whole seconds, health and stamina in tenths; a product    *)
(* with a decimal factor is truncated to the fixed-point grid              *)

(* the speed limit of player_update, 10.0f *)
SPEED_LIMIT == 10 * Unit

GroundSnapNoStep(ground_z, height) == ground_z * Unit + height

(* new_pos.z = ground_z + 1.0f + player->height *)
GroundSnap(ground_z, height) == ground_z * Unit + Unit + height

(* gravity or damping, and the tentative position *)
Integrate(p, w, delta_time) ==
  LET vz == IF ~p.flying THEN p.velocity[3] - GRAVITY * delta_time
            ELSE Scale(p.velocity[3], 9, 10)
      v == [p.velocity EXCEPT ![3] = vz]
  IN  [player |-> p, world |-> w, velocity |-> v,
       new_pos |-> [i \in 1..3 |-> p.position[i] + v[i] * delta_time],
       moved |-> vz * delta_time]

(* the ground collision *)
GroundTest(s) ==
  LET ground_x == Floor(s.new_pos[1])
      ground_y == Floor(s.new_pos[2])
      ground_z == Floor(s.new_pos[3] - s.player.height)
      solid == /\ ground_z >= 0 /\ ground_z < s.world.depth
               /\ world_is_solid(s.world, ground_x, ground_y, ground_z)
  IN  [player |-> s.player, world |-> s.world, moved |-> s.moved,
       ground_z |-> ground_z, grounded |-> solid,
       new_pos |-> IF solid
                   THEN [s.new_pos EXCEPT
                           ![3] = GroundSnap(ground_z, s.player.height)]
                   ELSE s.new_pos,
       velocity |-> IF solid THEN [s.velocity EXCEPT ![3] = 0]
                    ELSE s.velocity]

(* the cell of the wall tests *)
WallCell(s) ==
  [player |-> s.player, world |-> s.world, moved |-> s.moved,
   ground_z |-> s.ground_z, grounded |-> s.grounded,
   new_pos |-> s.new_pos, velocity |-> s.velocity,
   wall_x |-> Floor(s.new_pos[1]), wall_y |-> Floor(s.new_pos[2]),
   wall_z |-> Floor(s.new_pos[3])]

(* the condition of the X-axis collision *)
XBlocked(s) ==
  world_is_solid(s.world, s.wall_x, Floor(s.player.position[2]), s.wall_z)

(* the X-axis collision *)
WallX(s) ==
  IF XBlocked(s)
  THEN [s EXCEPT !.new_pos[1] = s.player.position[1], !.velocity[1] = 0]
  ELSE s

(* the condition of the Y-axis collision *)
YBlocked(s) ==
  world_is_solid(s.world, Floor(s.new_pos[1]), s.wall_y, s.wall_z)

(* the Y-axis collision *)
WallY(s) ==
  IF YBlocked(s)
  THEN [s EXCEPT !.new_pos[2] = s.player.position[2], !.velocity[2] = 0]
  ELSE s

(* the condition of the ceiling collision: wall_x and wall_y are the      *)
(* locals computed before the X and Y tests                                *)
CeilingBlocked(s) ==
  LET ceiling_z == Floor(s.new_pos[3])
  IN  /\ ceiling_z < s.world.depth
      /\ world_is_solid(s.world, s.wall_x, s.wall_y, ceiling_z)

(* the ceiling collision *)
Ceiling(s) ==
  IF CeilingBlocked(s)
  THEN [s EXCEPT !.new_pos[3] = s.player.position[3], !.velocity[3] = 0]
  ELSE s

(* the speed limit *)
SpeedLimit(s) ==
  LET speed2 == Len2(s.velocity)
  IN  IF speed2 > SPEED_LIMIT * SPEED_LIMIT
      THEN [s EXCEPT !.velocity =
              [i \in 1..3 |-> Scale(s.velocity[i], SPEED_LIMIT, ISqrt(speed2))]]
      ELSE s

(* friction *)
Friction(s) ==
  IF s.grounded
  THEN [s EXCEPT !.velocity[1] = Scale(@, 8, 10),
                 !.velocity[2] = Scale(@, 8, 10)]
  ELSE [s EXCEPT !.velocity[1] = Scale(@, 98, 100),
                 !.velocity[2] = Scale(@, 98, 100)]

(* the world bounds and the stamina *)
KeepInWorld(s) ==
  LET x1 == IF s.new_pos[1] < Unit THEN Unit ELSE s.new_pos[1]
      y1 == IF s.new_pos[2] < Unit THEN Unit ELSE s.new_pos[2]
      xmax == (s.world.width - 1) * Unit
      ymax == (s.world.height - 1) * Unit
  IN  [player |->
         [s.player EXCEPT
            !.position = <<IF x1 > xmax THEN xmax ELSE x1,
                           IF y1 > ymax THEN ymax ELSE y1, s.new_pos[3]>>,
            !.velocity = s.velocity,
            !.grounded = s.grounded,
            !.stamina = IF @ + 1 < 1000 THEN @ + 1 ELSE 1000],
       ground_z |-> s.ground_z,
       onGround |-> s.grounded,
       moved |-> s.moved]

(* the collision tests of one player_update: the tentative state after    *)
(* the ground test, which tests fired, and the state after the three       *)
(* wall tests                                                              *)
CollisionTests(p, w, delta_time) ==
  Then(Then(Then(Integrate(p, w, delta_time), GroundTest), WallCell),
    LAMBDA s3 : Then(WallX(s3),
    LAMBDA s4 : Then(WallY(s4),
    LAMBDA s5 : Then(Ceiling(s5),
    LAMBDA s6 :
      [after_ground |-> [new_pos |-> s3.new_pos, velocity |-> s3.velocity,
                         grounded |-> s3.grounded, ground_z |-> s3.ground_z],
       hit_x |-> XBlocked(s3), hit_y |-> YBlocked(s4),
       hit_ceiling |-> CeilingBlocked(s5),
       after_walls |-> s5.new_pos,
       new_pos |-> s6.new_pos, velocity |-> s6.velocity]))))

(* player_update(player, world, delta_time): the player it leaves, with    *)
(* the ground cell it sampled and what the sample gave                     *)
player_update(p, w, delta_time) ==
  Then(Then(Then(Then(Then(Then(Then(Then(
    Integrate(p, w, delta_time),
    GroundTest), WallCell), WallX), WallY), Ceiling), SpeedLimit), Friction),
    KeepInWorld)

-----------------------------------------------------------------------------
(* world.c: lighting.  A brightness is counted in thousandths; the world   *)
(* keeps sky_brightness as the bits of a float                             *)

(* the bits of a float without its sign, INT_MAX of limits.h *)
F32_MAGNITUDE == 2147483647

(* the width of the fraction and the bias of the exponent of a float *)
F32_FRACTION_BITS == 23
F32_BIAS == 127

(* the value, in thousandths, of the finite float of magnitude below 16    *)
(* whose bits are n: the eleven leading bits of the significand, scaled by *)
(* the exponent, truncated                                                 *)
F32Value(n) ==
  LET m == IF n < 0 THEN (n + F32_MAGNITUDE) + 1 ELSE n
      e == m \div Pow2(F32_FRACTION_BITS)
      lead == (Pow2(F32_FRACTION_BITS) + (m % Pow2(F32_FRACTION_BITS)))
                \div Pow2(F32_FRACTION_BITS - 10)
      shift == e - F32_BIAS - 10
      v == IF e = 0 THEN 0
           ELSE IF shift >= 0 THEN lead * 1000 * Pow2(shift)
           ELSE (lead * 1000) \div Pow2(0 - shift)
  IN  IF n < 0 THEN 0 - v ELSE v

(* clamp(value, min, max) of utils.h *)
clamp(value, min, max) ==
  IF value < min THEN min ELSE IF value > max THEN max ELSE value

(* the opaque blocks above a cell: the loop of world_get_brightness *)
BlocksAbove(w, x, y, z) ==
  Cardinality({ check_z \in (z + 1)..(w.depth - 1) :
                  /\ world_is_valid_position(w, x, y, check_z)
                  /\ BlockAt(w, x, y, check_z) # BLOCK_AIR
                  /\ BlockAt(w, x, y, check_z) # BLOCK_WATER })

(* brightness *= 0.7f, n times *)
RECURSIVE Dimmed(_, _)
Dimmed(brightness, n) ==
  IF n = 0 THEN brightness ELSE Dimmed(Scale(brightness, 7, 10), n - 1)

BRIGHTNESS_MIN == 200
BRIGHTNESS_MAX == 1000

world_get_brightness_unclamped(w, x, y, z) ==
  IF ~world_is_valid_position(w, x, y, z) THEN 0
  ELSE Dimmed(F32Value(w.sky_brightness), BlocksAbove(w, x, y, z))

world_get_brightness(w, x, y, z) ==
  IF ~world_is_valid_position(w, x, y, z) THEN 0
  ELSE clamp(Dimmed(F32Value(w.sky_brightness), BlocksAbove(w, x, y, z)),
             BRIGHTNESS_MIN, BRIGHTNESS_MAX)

-----------------------------------------------------------------------------
(* world.c: generation.  The noise and the random numbers are inputs: raw  *)
(* is the height (int)height of each column before the minimum is applied, *)
(* moisture the class of each column ("wet" above 0.6, "sandy" below -0.3, *)
(* "grass" between), trees the random_int results of each tree             *)

TREE_HEIGHT_MIN == 4
TREE_HEIGHT_MAX == 7
TREE_MARGIN == 3
TREE_AREA == 100
HOUSE_WIDTH == 7
HOUSE_LENGTH == 9
HOUSE_HEIGHT == 4

(* the surface height of a column *)
SurfaceHeight(raw, x, y) ==
  IF raw[<<x, y>>] < GROUND_HEIGHT THEN GROUND_HEIGHT ELSE raw[<<x, y>>]

(* the block the terrain fill leaves at height z of a column *)
TerrainBlock(old, z, surface_height, m) ==
  IF z < surface_height - 4 THEN BLOCK_STONE
  ELSE IF z < surface_height - 1 THEN BLOCK_DIRT
  ELSE IF z = surface_height - 1
  THEN IF m = "wet" THEN BLOCK_DIRT
       ELSE IF m = "sandy" THEN BLOCK_SAND ELSE BLOCK_GRASS
  ELSE IF z = surface_height /\ m = "wet" THEN BLOCK_WATER
  ELSE old

(* the blocks after one tree *)
PlantTree(w, blocks, raw, tree) ==
  LET surface_height == SurfaceHeight(raw, tree.tx, tree.ty)
      top == surface_height + tree.tree_height
      trunk(c) == /\ c[1] = tree.tx /\ c[2] = tree.ty
                  /\ c[3] >= surface_height /\ c[3] < top
      dz(c) == c[3] - (top - 1)
      leaf(c) ==
        /\ c[3] >= top - 3 /\ c[3] < top + 1
        /\ Abs(c[1] - tree.tx) <= 2 /\ Abs(c[2] - tree.ty) <= 2
        /\ 4 * ((c[1] - tree.tx) * (c[1] - tree.tx)
                  + (c[2] - tree.ty) * (c[2] - tree.ty)
                  + 2 * dz(c) * dz(c)) < 25
  IN  IF /\ surface_height < w.depth - 5
         /\ blocks[<<tree.tx, tree.ty, surface_height - 1>>] = BLOCK_GRASS
      THEN [c \in DOMAIN blocks |->
              IF trunk(c) THEN BLOCK_WOOD
              ELSE IF leaf(c) /\ blocks[c] = BLOCK_AIR THEN BLOCK_LEAVES
              ELSE blocks[c]]
      ELSE blocks

RECURSIVE PlantTrees(_, _, _, _)
PlantTrees(w, blocks, raw, trees) ==
  IF trees = <<>> THEN blocks
  ELSE Then(PlantTree(w, blocks, raw, Head(trees)),
            LAMBDA planted : PlantTrees(w, planted, raw, Tail(trees)))

(* world_generate_terrain(world, seed) *)
world_generate_terrain(w, raw, moisture, trees) ==
  Then([c \in DOMAIN w.blocks |->
          TerrainBlock(w.blocks[c], c[3], SurfaceHeight(raw, c[1], c[2]),
                       moisture[<<c[1], c[2]>>])],
       LAMBDA filled : [w EXCEPT !.blocks = PlantTrees(w, filled, raw, trees)])

(* the first height, from z up, at which the column is not air *)
RECURSIVE GroundLevel(_, _, _, _)
GroundLevel(w, x, y, z) ==
  IF z < w.depth /\ w.blocks[<<x, y, z>>] = BLOCK_AIR
  THEN GroundLevel(w, x, y, z + 1)
  ELSE z

(* world_generate_structures(world, seed) *)
world_generate_structures(w) ==
  LET house_x == w.width \div 2
      house_y == w.height \div 2
      house_z == GroundLevel(w, house_x, house_y, 0) + 1
      inside(c) == /\ c[1] >= house_x /\ c[1] < house_x + HOUSE_WIDTH
                   /\ c[2] >= house_y /\ c[2] < house_y + HOUSE_LENGTH
      x(c) == c[1] - house_x
      y(c) == c[2] - house_y
      z(c) == c[3] - house_z
      wall(c) ==
        /\ inside(c) /\ z(c) >= 1 /\ z(c) < HOUSE_HEIGHT
        /\ \/ x(c) = 0 \/ x(c) = HOUSE_WIDTH - 1
           \/ y(c) = 0 \/ y(c) = HOUSE_LENGTH - 1
        /\ ~(z(c) < 3 /\ x(c) = HOUSE_WIDTH \div 2 /\ y(c) = 0)
      window(c) == /\ x(c) = HOUSE_WIDTH - 2 /\ y(c) = HOUSE_LENGTH - 2
                   /\ z(c) = 2
  IN  IF \/ house_x + HOUSE_WIDTH >= w.width
         \/ house_y + HOUSE_LENGTH >= w.height
         \/ house_z + HOUSE_HEIGHT >= w.depth
      THEN w
      ELSE [w EXCEPT !.blocks =
              [c \in DOMAIN w.blocks |->
                 IF window(c) THEN BLOCK_AIR
                 ELSE IF inside(c) /\ z(c) = HOUSE_HEIGHT THEN BLOCK_WOOD
                 ELSE IF wall(c) THEN BLOCK_BRICK
                 ELSE IF inside(c) /\ z(c) = 0 THEN BLOCK_WOOD
                 ELSE w.blocks[c]]]

-----------------------------------------------------------------------------
(* terminal.c: keyboard input.  keystate and keyheld are the sets of the   *)
(* indices at which the tables hold 1; the input of a poll is the sequence *)
(* of the bytes that read() or _getch() deliver during it                  *)

(* the size of the key tables *)
KEY_TABLE_SIZE == 256

(* terminal.h, enum SpecialKeys *)
KEY_UP == 256
KEY_DOWN == 257
KEY_LEFT == 258
KEY_RIGHT == 259
KEY_ENTER == 260
KEY_ESCAPE == 261
KEY_SPACE == 262
KEY_BACKSPACE == 263
KEY_TAB == 264
KEY_HOME == 265
KEY_END == 266
KEY_PGUP == 267
KEY_PGDN == 268
KEY_INSERT == 269
KEY_DELETE == 270
KEY_F1 == 271

(* the bytes the polls tell apart *)
CH_BACKSPACE == 8
CH_TAB == 9
CH_LF == 10
CH_CR == 13
CH_ESC == 27
CH_SPACE == 32
CH_DEL == 127
CH_PREFIX == 224

(* the characters the code names, with their bytes *)
CharTable ==
  { <<"0", 48>>, <<"9", 57>>, <<"A", 65>>, <<"B", 66>>, <<"C", 67>>,
    <<"D", 68>>, <<"F", 70>>, <<"H", 72>>, <<"O", 79>>, <<"[", 91>>,
    <<"~", 126>>, <<"a", 97>>, <<"d", 100>>, <<"e", 101>>, <<"f", 102>>,
    <<"h", 104>>, <<"i", 105>>, <<"j", 106>>, <<"k", 107>>, <<"l", 108>>,
    <<"m", 109>>, <<"o", 111>>, <<"p", 112>>, <<"q", 113>>, <<"r", 114>>,
    <<"s", 115>>, <<"w", 119>> }

(* the character c as a byte *)
Chr(c) == (CHOOSE p \in CharTable : p[1] = c)[2]

terminal_init(platform) ==
  [platform |-> platform, keystate |-> {}, keyheld |-> {}]

(* if (KEY < 256) keystate[KEY] = 1; *)
SetKey(ks, key) == IF key < KEY_TABLE_SIZE THEN ks \cup {key} ELSE ks

(* the non-_WIN32 loop: while (read(STDIN_FILENO, &c, 1) > 0) ... *)
RECURSIVE ReadPosix(_, _)
ReadPosix(ks, in) ==
  IF in = <<>> THEN ks
  ELSE
    LET c == Head(in)
        rest == Tail(in)
    IN  IF c = CH_ESC
        THEN IF rest = <<>> THEN SetKey(ks, KEY_ESCAPE)
             ELSE IF rest[1] = Chr("[")
             THEN IF Len(rest) < 2 THEN ks
                  ELSE IF rest[2] >= Chr("0") /\ rest[2] <= Chr("9")
                  THEN IF Len(rest) < 3 THEN ks
                       ELSE ReadPosix(
                              IF rest[3] = Chr("~") /\ rest[2] = Chr("0") + 1
                              THEN SetKey(ks, KEY_HOME)
                              ELSE IF rest[3] = Chr("~")
                                      /\ rest[2] = Chr("0") + 2
                              THEN SetKey(ks, KEY_INSERT)
                              ELSE IF rest[3] = Chr("~")
                                      /\ rest[2] = Chr("0") + 3
                              THEN SetKey(ks, KEY_DELETE)
                              ELSE IF rest[3] = Chr("~")
                                      /\ rest[2] = Chr("0") + 4
                              THEN SetKey(ks, KEY_END)
                              ELSE IF rest[3] = Chr("~")
                                      /\ rest[2] = Chr("0") + 5
                              THEN SetKey(ks, KEY_PGUP)
                              ELSE IF rest[3] = Chr("~")
                                      /\ rest[2] = Chr("0") + 6
                              THEN SetKey(ks, KEY_PGDN)
                              ELSE ks,
                              SubSeq(rest, 4, Len(rest)))
                  ELSE ReadPosix(
                         IF rest[2] = Chr("A") THEN SetKey(ks, KEY_UP)
                         ELSE IF rest[2] = Chr("B") THEN SetKey(ks, KEY_DOWN)
                         ELSE IF rest[2] = Chr("C") THEN SetKey(ks, KEY_RIGHT)
                         ELSE IF rest[2] = Chr("D") THEN SetKey(ks, KEY_LEFT)
                         ELSE IF rest[2] = Chr("H") THEN SetKey(ks, KEY_HOME)
                         ELSE IF rest[2] = Chr("F") THEN SetKey(ks, KEY_END)
                         ELSE ks,
                         SubSeq(rest, 3, Len(rest)))
             ELSE IF rest[1] = Chr("O")
             THEN IF Len(rest) < 2 THEN ks
                  ELSE ReadPosix(
                         IF rest[2] \in (Chr("O") + 1)..(Chr("O") + 4)
                         THEN SetKey(ks, KEY_F1 + (rest[2] - Chr("O") - 1))
                         ELSE ks,
                         SubSeq(rest, 3, Len(rest)))
             ELSE ReadPosix(ks, Tail(rest))
        ELSE ReadPosix(
               IF c = CH_DEL THEN SetKey(ks, KEY_BACKSPACE)
               ELSE IF c = CH_TAB THEN SetKey(ks, KEY_TAB)
               ELSE IF c = CH_LF THEN SetKey(ks, KEY_ENTER)
               ELSE IF c = CH_SPACE THEN SetKey(ks, KEY_SPACE)
               ELSE ks \cup {c},
               rest)

(* the key of an extended scan code of _getch() *)
ExtendedKey(ch) ==
  IF ch = 72 THEN KEY_UP ELSE IF ch = 80 THEN KEY_DOWN
  ELSE IF ch = 75 THEN KEY_LEFT ELSE IF ch = 77 THEN KEY_RIGHT
  ELSE IF ch = 71 THEN KEY_HOME ELSE IF ch = 79 THEN KEY_END
  ELSE IF ch = 73 THEN KEY_PGUP ELSE IF ch = 81 THEN KEY_PGDN
  ELSE IF ch = 82 THEN KEY_INSERT ELSE IF ch = 83 THEN KEY_DELETE
  ELSE IF ch \in 59..68 THEN KEY_F1 + (ch - 59)
  ELSE IF ch \in 133..134 THEN KEY_F1 + 10 + (ch - 133)
  ELSE 0 - 1

(* the _WIN32 loop: while (_kbhit()) { int ch = _getch(); ... }.  A prefix  *)
(* byte that ends the input makes _getch() wait for the next key, which    *)
(* the poll of the model does not see                                      *)
RECURSIVE ReadWin32(_, _)
ReadWin32(ks, in) ==
  IF in = <<>> THEN ks
  ELSE
    LET ch == Head(in)
        rest == Tail(in)
    IN  IF ch = 0 \/ ch = CH_PREFIX
        THEN IF rest = <<>> THEN ks
             ELSE ReadWin32(
                    IF ExtendedKey(rest[1]) >= 0
                    THEN SetKey(ks, ExtendedKey(rest[1])) ELSE ks,
                    Tail(rest))
        ELSE ReadWin32(
               IF ch = CH_BACKSPACE THEN SetKey(ks, KEY_BACKSPACE)
               ELSE IF ch = CH_TAB THEN SetKey(ks, KEY_TAB)
               ELSE IF ch = CH_CR THEN SetKey(ks, KEY_ENTER)
               ELSE IF ch = CH_ESC THEN SetKey(ks, KEY_ESCAPE)
               ELSE IF ch = CH_SPACE THEN SetKey(ks, KEY_SPACE)
               ELSE ks \cup {ch % KEY_TABLE_SIZE},
               rest)

(* terminal_process_input(), reading the bytes of `in' *)
terminal_process_input(t, in) ==
  [t EXCEPT
     !.keyheld = t.keystate \cup t.keyheld,
     !.keystate = IF t.platform = "win32" THEN ReadWin32({}, in)
                  ELSE ReadPosix({}, in)]

(* terminal_key_pressed(key), key a char *)
terminal_key_pressed(t, key) == (key % KEY_TABLE_SIZE) \in t.keystate

(* terminal_key_held(key), key a char *)
terminal_key_held(t, key) == (key % KEY_TABLE_SIZE) \in t.keyheld

(* terminal_special_key_pressed(key), key an int *)
terminal_special_key_pressed(t, key) ==
  key >= 0 /\ key < KEY_TABLE_SIZE /\ key \in t.keystate

-----------------------------------------------------------------------------
(* main.c: the game state that input handling changes *)

(* renderer_create: the display options of a new renderer *)
renderer_create ==
  [draw_hud |-> TRUE, draw_debug |-> FALSE, wireframe_mode |-> FALSE,
   show_minimap |-> TRUE]

(* main and game_init *)
game_init == [running |-> TRUE, paused |-> FALSE, renderer |-> renderer_create]

(* the player after the held movement and turn keys of a frame *)
MoveAndTurn(t, p, w, delta_time) ==
  LET held(c) == terminal_key_held(t, Chr(c))
      forward == (IF held("i") THEN 1 ELSE 0) - (IF held("k") THEN 1 ELSE 0)
      right == (IF held("l") THEN 1 ELSE 0) - (IF held("j") THEN 1 ELSE 0)
      turned(q, c, pitch, yaw) ==
        IF held(c) THEN player_rotate(q, pitch, yaw) ELSE q
  IN  Then(player_move(p, w, forward, right, delta_time), LAMBDA p1 :
      Then(turned(p1, "w", PLAYER_TURN_SPEED, 0), LAMBDA p2 :
      Then(turned(p2, "s", 0 - PLAYER_TURN_SPEED, 0), LAMBDA p3 :
      Then(turned(p3, "a", 0, 0 - PLAYER_TURN_SPEED), LAMBDA p4 :
        turned(p4, "d", 0, PLAYER_TURN_SPEED)))))

(* the player after the slot keys '1'..'9' of a frame *)
RECURSIVE SelectSlots(_, _, _)
SelectSlots(t, p, i) ==
  IF i > 9 THEN p
  ELSE SelectSlots(t, IF terminal_key_pressed(t, Chr("0") + i)
                      THEN player_select_slot(p, i) ELSE p, i + 1)

(* the display options after the keys 'h', 'o' and 'm' of a frame *)
ToggleOptions(t, r) ==
  [r EXCEPT
     !.draw_hud = IF terminal_key_pressed(t, Chr("h")) THEN ~@ ELSE @,
     !.draw_debug = IF terminal_key_pressed(t, Chr("o")) THEN ~@ ELSE @,
     !.show_minimap = IF terminal_key_pressed(t, Chr("m")) THEN ~@ ELSE @]

(* the frame of a game that is not paused, after the poll *)
FrameInput(g, t, p, w, delta_time) ==
  LET pressed(c) == terminal_key_pressed(t, Chr(c))
      jump == terminal_key_pressed(t, CH_SPACE)
  IN  Then(MoveAndTurn(t, p, w, delta_time), LAMBDA p1 :
      Then(IF jump THEN player_jump(p1) ELSE p1, LAMBDA p2 :
      Then(IF pressed("f") THEN [p2 EXCEPT !.flying = ~@] ELSE p2, LAMBDA p3 :
      Then(IF pressed("e")
           THEN player_place_block(p3, w, p3.selected_slot)
           ELSE [player |-> p3, world |-> w], LAMBDA placed :
      Then(IF pressed("r")
           THEN player_break_block(placed.player, placed.world)
           ELSE placed, LAMBDA broken :
        [game |-> [g EXCEPT !.renderer = ToggleOptions(t, @)],
         terminal |-> t,
         player |-> SelectSlots(t, broken.player, 1),
         world |-> broken.world,
         jumped |-> jump,
         calls |-> <<"player_move">>
                     \o (IF jump THEN <<"player_jump">> ELSE <<>>)
                     \o (IF pressed("e") THEN <<"player_place_block">>
                         ELSE <<>>)
                     \o (IF pressed("r") THEN <<"player_break_block">>
                         ELSE <<>>)])))))

(* a game_process_input in which the 'r' that resumes a paused game goes   *)
(* on to the game input of the frame                                       *)
AfterPollResuming(g, t, p, w, delta_time) ==
  LET pressed(c) == terminal_key_pressed(t, Chr(c))
      same == [game |-> g, terminal |-> t, player |-> p, world |-> w,
               jumped |-> FALSE, calls |-> <<>>]
  IN  IF pressed("q") THEN [same EXCEPT !.game.running = FALSE]
      ELSE IF pressed("p") THEN [same EXCEPT !.game.paused = ~g.paused]
      ELSE IF g.paused /\ ~pressed("r") THEN same
      ELSE FrameInput([g EXCEPT !.paused = FALSE], t, p, w, delta_time)

(* game_process_input after its poll *)
AfterPoll(g, t, p, w, delta_time) ==
  LET pressed(c) == terminal_key_pressed(t, Chr(c))
      same == [game |-> g, terminal |-> t, player |-> p, world |-> w,
               jumped |-> FALSE, calls |-> <<>>]
  IN  IF pressed("q") THEN [same EXCEPT !.game.running = FALSE]
      ELSE IF pressed("p") THEN [same EXCEPT !.game.paused = ~g.paused]
      ELSE IF g.paused
      THEN IF pressed("r") THEN [same EXCEPT !.game.paused = FALSE] ELSE same
      ELSE FrameInput(g, t, p, w, delta_time)

(* game_process_input(game), the poll reading the bytes of `in': the game, *)
(* terminal, player and world it leaves, whether it called player_jump,    *)
(* and its calls of player_move, player_jump, player_place_block and       *)
(* player_break_block in the order it made them                            *)
game_process_input(g, t0, p, w, in, delta_time) ==
  Then(terminal_process_input(t0, in),
       LAMBDA t : AfterPoll(g, t, p, w, delta_time))

-----------------------------------------------------------------------------
(* Inputs *)

(* worlds of the given size with at most two non-air cells of the given    *)
(* block types                                                             *)
SparseWorlds(w, h, d, types) ==
  LET base == world_create(w, h, d)
      T0 == types \cup {BLOCK_AIR}
  IN  { world_set_block(
          world_set_block(base, c1[1], c1[2], c1[3], t1),
          c2[1], c2[2], c2[3], t2) :
        c1 \in Cells(w, h, d), c2 \in Cells(w, h, d), t1 \in T0, t2 \in types }
      \cup {base}

NoFile == <<>>

-----------------------------------------------------------------------------
(* Specification of cast_ray as a function of its arguments *)

RayWorlds == SparseWorlds(MaxW, MaxH, MaxD, {BLOCK_DIRT, BLOCK_WATER})

Directions == {d \in {-1, 0, 1} \X {-1, 0, 1} \X {-1, 0, 1} : d # <<0, 0, 0>>}

RayOrigins ==
  { <<x, y, z>> :
      x \in {0 - Unit \div 2, Unit \div 2, Unit},
      y \in {Unit \div 2},
      z \in {0 - Unit \div 2, Unit \div 2, Unit + Unit \div 2,
             MaxD * Unit + Unit \div 2, (MaxD + 3) * Unit} }

RayMaxDistances == {Unit, 10 * Unit}

InitRay ==
  /\ world \in RayWorlds
  /\ player = player_create
  /\ ray \in [position : RayOrigins, direction : Directions,
              max_distance : RayMaxDistances]
  /\ frame_time = 0
  /\ file = NoFile
  /\ terminal = terminal_init("posix")
  /\ game = game_init
  /\ last = None
  /\ prev = None
  /\ steps = 0

CastRay ==
  /\ last = None
  /\ last' = [op |-> "cast_ray",
              hit |-> cast_ray(world, ray.position, ray.direction,
                               ray.max_distance)]
  /\ steps' = steps + 1
  /\ UNCHANGED <<terminal, game, world, player, ray, frame_time, file, prev>>

NextRay == CastRay

SpecRay == InitRay /\ [][NextRay]_vars

-----------------------------------------------------------------------------
(* Claims about cast_ray (SpecRay) *)

Cast == last.op = "cast_ray"

InGrid(w, c) == world_is_valid_position(w, c[1], c[2], c[3])

AllAir(w) == \A c \in DOMAIN w.blocks : w.blocks[c] = BLOCK_AIR

(* the ray runs along one axis only *)
AxisAligned(d) == Len2(d) = 1

(* the axis an axis-aligned direction runs along *)
AxisOf(d) == CHOOSE a \in 1..3 : d[a] # 0

(* the distance, in 1/Unit, at which an axis-aligned ray from o along d    *)
(* enters cell c; negative when the cell lies behind the origin            *)
EntryDistance(o, d, c) ==
  LET a == AxisOf(d)
  IN  IF d[a] > 0 THEN c[a] * Unit - o[a] ELSE o[a] - (c[a] + 1) * Unit

(* cell c lies on the line of an axis-aligned ray from o along d, ahead of *)
(* the origin                                                              *)
OnLine(o, d, c) ==
  /\ \A i \in 1..3 : i # AxisOf(d) => c[i] = Floor(o[i])
  /\ EntryDistance(o, d, c) >= 0

(* C1 (as claimed): a ray that starts outside the grid, enters it and      *)
(* reaches a non-air cell at a distance below max_distance reports a hit.  *)
(* Stated for the axis-aligned rays, the 2x2x2 instance of the claim among *)
(* them.                                                                   *)
C1_OutsideOriginHits ==
  ( /\ Cast
    /\ AxisAligned(ray.direction)
    /\ ~InGrid(world, [i \in 1..3 |-> Floor(ray.position[i])])
    /\ \E c \in DOMAIN world.blocks :
         /\ world.blocks[c] # BLOCK_AIR
         /\ OnLine(ray.position, ray.direction, c)
         /\ EntryDistance(ray.position, ray.direction, c) < ray.max_distance )
  => last.hit.hit

(* C4 (as claimed): every hit has 0 <= distance <= max_distance.           *)
C4_HitWithinMaxDistance ==
  (Cast /\ last.hit.hit) =>
     /\ DistLeq(Dist(0, 1), last.hit.distance)
     /\ DistLeq(last.hit.distance, Dist(ray.max_distance, 1))

(* the cells the traversal entered before the last one *)
EarlierCells(hit) == {hit.path[i] : i \in 1..(Len(hit.path) - 1)}

(* C5 (as claimed): the hit cell is solid and no cell entered before it is *)
(* solid.                                                                  *)
C5_HitIsFirstSolid ==
  (Cast /\ last.hit.hit) =>
     /\ world_is_solid(world, last.hit.cell[1], last.hit.cell[2],
                       last.hit.cell[3])
     /\ \A c \in EarlierCells(last.hit) :
          ~world_is_solid(world, c[1], c[2], c[3])

(* C5 (amended): the hit cell is non-air, water included, its id is the    *)
(* reported block type, and no cell the traversal entered before it is     *)
(* non-air.                                                                *)
C5_HitIsFirstNonAir ==
  (Cast /\ last.hit.hit) =>
     /\ InGrid(world, last.hit.cell)
     /\ world.blocks[last.hit.cell] # BLOCK_AIR
     /\ world.blocks[last.hit.cell] = last.hit.block_type
     /\ last.hit.cell = last.hit.path[Len(last.hit.path)]
     /\ \A c \in EarlierCells(last.hit) :
          world_get_block(world, c[1], c[2], c[3]) = BLOCK_AIR

(* a hit on water after the ray crossed at least one air cell *)
C5_Witness ==
  /\ Cast /\ last.hit.hit
  /\ last.hit.block_type = BLOCK_WATER
  /\ Len(last.hit.path) >= 2

(* C7: a miss reports distance = max_distance, whether the ray left the    *)
(* grid or ran out of distance, and in an all-air grid every ray misses.   *)
C7_MissReportsMaxDistance ==
  Cast =>
    /\ ~last.hit.hit =>
         DistEq(last.hit.distance, Dist(ray.max_distance, 1))
    /\ AllAir(world) => ~last.hit.hit

(* a miss in an all-air grid whose loop ran out of distance inside the     *)
(* grid, after at least two steps                                          *)
C7_Witness ==
  /\ Cast /\ ~last.hit.hit /\ AllAir(world)
  /\ Len(last.hit.path) >= 2
  /\ InGrid(world, last.hit.cell)


(* the smallest t_max of an iteration, and the axes that have it *)
Smallest(tmax) ==
  CHOOSE m \in {tmax[1], tmax[2], tmax[3]} :
    \A i \in 1..3 : m <= tmax[i]

TiedAxes(tmax) == {i \in 1..3 : tmax[i] = Smallest(tmax)}

(* the iterations of the cast in which two or three axes tie *)
TiedIterations ==
  {i \in DOMAIN last.hit.trace :
     Cardinality(TiedAxes(last.hit.trace[i].tmax)) >= 2}

(* C20 (as claimed): in an iteration where two or three axes tie for the   *)
(* smallest tMax, the axis stepped is X if X is among the tied-smallest,   *)
(* otherwise Y.                                                            *)
C20_TieGoesToEarlierAxis ==
  last.op = "cast_ray" =>
    \A i \in TiedIterations :
      last.hit.trace[i].axis =
        IF 1 \in TiedAxes(last.hit.trace[i].tmax) THEN 1 ELSE 2

(* C20 (amended): in an iteration where two or three axes tie for the      *)
(* smallest tMax, the axis stepped is Z if Z is among the tied-smallest,   *)
(* otherwise Y: X is stepped only when its tMax is strictly the smallest.  *)
C20_TieGoesToLaterAxis ==
  last.op = "cast_ray" =>
    \A i \in TiedIterations :
      last.hit.trace[i].axis =
        IF 3 \in TiedAxes(last.hit.trace[i].tmax) THEN 3 ELSE 2

(* a cast with an iteration in which X and Y tie below Z, and one in which *)
(* X ties with Z                                                           *)
C20_Witness ==
  /\ last.op = "cast_ray"
  /\ \E i \in TiedIterations :
       /\ TiedAxes(last.hit.trace[i].tmax) = {1, 2}
       /\ last.hit.trace[i].axis = 2
  /\ \E i \in TiedIterations :
       /\ {1, 3} \subseteq TiedAxes(last.hit.trace[i].tmax)
       /\ last.hit.trace[i].axis = 3
-----------------------------------------------------------------------------
(* Specification of the block interaction: a player posed in a sparse      *)
(* world breaks and places; last and prev record the two latest            *)
(* operations with the grid and the inventory they started from            *)

InteractWorlds == SparseWorlds(MaxW, MaxH, MaxD, {BLOCK_DIRT, BLOCK_WATER})

Half == Unit \div 2

InteractPositions ==
  { <<Half, Half, Half>>, <<Half, Half, Unit + Half>>,
    <<Unit + Half, Half, Half>>, <<Unit + Half, Unit + Half, Unit + Half>>,
    <<2 * Unit + Half, Half, Half>>,
    <<Unit \div 4, Half, Unit + Half>> }

PlaceTypes == {BLOCK_DIRT, BLOCK_WATER}

InitInteract ==
  /\ world \in InteractWorlds
  /\ \E pos \in InteractPositions, pitch \in Pitches, yaw \in Yaws :
       player = [player_create EXCEPT
                   !.position = pos,
                   !.rotation = [pitch |-> pitch, yaw |-> yaw]]
  /\ ray = [position |-> <<0, 0, 0>>, direction |-> <<0, 0, 1>>,
            max_distance |-> REACH]
  /\ frame_time = 0
  /\ file = NoFile
  /\ terminal = terminal_init("posix")
  /\ game = game_init
  /\ last = None
  /\ prev = None
  /\ steps = 0

Record(op, r) ==
  [op |-> op, hit |-> r.hit, cell |-> r.cell, block_type |-> r.block_type,
   wrote |-> r.wrote, pre_blocks |-> world.blocks,
   pre_inventory |-> player.inventory, pre_player |-> player,
   pre_world |-> world]

Break ==
  /\ prev = None
  /\ LET r == player_break_block(player, world)
     IN  /\ player' = r.player
         /\ world' = r.world
         /\ last' = Record("break", r)
  /\ prev' = last
  /\ steps' = steps + 1
  /\ UNCHANGED <<terminal, game, ray, frame_time, file>>

Place ==
  /\ prev = None
  /\ \E block_type \in PlaceTypes :
       LET r == player_place_block(player, world, block_type)
       IN  /\ player' = r.player
           /\ world' = r.world
           /\ last' = Record("place", r)
  /\ prev' = last
  /\ steps' = steps + 1
  /\ UNCHANGED <<terminal, game, ray, frame_time, file>>

NextInteract == Break \/ Place

SpecInteract == InitInteract /\ [][NextInteract]_vars

-----------------------------------------------------------------------------
(* Claims about break and place (SpecInteract) *)

(* C2 (as claimed): a break whose ray hits sets exactly the hit cell to    *)
(* air and adds one to the inventory count of that cell's id, and changes  *)
(* nothing else, whichever face the ray entered through.                   *)
C2_BreakClearsHitCell ==
  (last.op = "break" /\ last.hit.hit) =>
     /\ world.blocks = [last.pre_blocks EXCEPT ![last.hit.cell] = BLOCK_AIR]
     /\ player.inventory =
          [last.pre_inventory EXCEPT ![last.hit.block_type] = @ + 1]

(* C3 (as claimed): break, then place(T) of the type T that was hit, gives *)
(* back the grid and the count of T from before the break.                 *)
C3_BreakThenPlaceRestores ==
  ( /\ prev.op = "break" /\ prev.hit.hit
    /\ last.op = "place" /\ last.block_type = prev.hit.block_type
    /\ prev.pre_inventory[last.block_type] < UINT8 - 1 )
  => /\ world.blocks = prev.pre_blocks
     /\ player.inventory[last.block_type] =
          prev.pre_inventory[last.block_type]

(* the break cleared a cell holding T and the place that follows wrote T   *)
(* into that same cell                                                     *)
BrokenThenRefilled ==
  /\ prev.op = "break" /\ prev.wrote
  /\ prev.block_type # BLOCK_AIR
  /\ last.op = "place" /\ last.wrote
  /\ last.block_type = prev.block_type
  /\ last.cell = prev.cell

(* C3 (amended): when the break removed a block of type T and the place    *)
(* that follows wrote T into the cell the break cleared, the grid and the  *)
(* whole inventory are as before the break.                                *)
C3_RefillRestores ==
  BrokenThenRefilled =>
     /\ world.blocks = prev.pre_blocks
     /\ player.inventory = prev.pre_inventory

C3_Witness ==
  /\ BrokenThenRefilled
  /\ prev.cell = prev.hit.cell
  /\ last.hit.cell # prev.hit.cell

(* C6 (as claimed): the cell a place targets is the hit cell plus the face *)
(* normal, for every hit.                                                  *)
C6_PlaceTargetsFaceNeighbour ==
  (last.op = "place" /\ last.hit.hit) =>
     last.cell = [i \in 1..3 |-> last.hit.cell[i] + last.hit.normal[i]]

(* the conditions under which player_place_block writes *)
PlaceAllowed ==
  /\ last.hit.hit
  /\ world_is_valid_position(last.pre_world, last.cell[1], last.cell[2],
                             last.cell[3])
  /\ last.pre_inventory[last.block_type] > 0

(* C19: player_place_block modifies state only when the ray hits, the      *)
(* target cell is within grid bounds and inventory[block_type] > 0; then   *)
(* it sets exactly the target cell to block_type and decrements            *)
(* inventory[block_type] by exactly 1.  In every other case the grid and   *)
(* the whole inventory are unchanged, so no count ever goes below 0.       *)
C19_PlaceOnlyWhenAllowed ==
  last.op = "place" =>
    /\ PlaceAllowed =>
         /\ world.blocks =
              [last.pre_blocks EXCEPT ![last.cell] = last.block_type]
         /\ player.inventory =
              [last.pre_inventory EXCEPT ![last.block_type] = @ - 1]
    /\ ~PlaceAllowed =>
         /\ world.blocks = last.pre_blocks
         /\ player.inventory = last.pre_inventory
    /\ player = [last.pre_player EXCEPT !.inventory = player.inventory]
    /\ \A t \in DOMAIN player.inventory : player.inventory[t] >= 0

(* a place that wrote the last block of its type, into an empty cell *)
C19_Witness ==
  /\ last.op = "place" /\ PlaceAllowed
  /\ last.pre_blocks[last.cell] = BLOCK_AIR
  /\ world.blocks[last.cell] = last.block_type
  /\ last.pre_inventory[last.block_type] = 1
  /\ player.inventory[last.block_type] = 0

(* a place refused for an empty count, and one refused for its target *)
PlaceRefusedForCount ==
  /\ last.op = "place" /\ last.hit.hit
  /\ last.pre_inventory[last.block_type] = 0
  /\ world_is_valid_position(last.pre_world, last.cell[1], last.cell[2],
                             last.cell[3])

PlaceRefusedForTarget ==
  /\ last.op = "place" /\ last.hit.hit
  /\ ~world_is_valid_position(last.pre_world, last.cell[1], last.cell[2],
                              last.cell[3])

-----------------------------------------------------------------------------
(* Specification of the queries: one of cast_ray along the view,           *)
(* player_raycast_block, player_interact, a break or a place, from the     *)
(* states of InitInteract                                                  *)

Inspected(op, hit) ==
  [op |-> op, hit |-> hit, pre_player |-> player, pre_world |-> world]

CastView ==
  /\ last = None
  /\ last' = Inspected("cast_ray",
                       cast_ray(world, player_get_camera_position(player),
                                player_get_view_direction(player), REACH))
  /\ steps' = steps + 1
  /\ UNCHANGED <<terminal, game, world, player, ray, frame_time, file, prev>>

RaycastBlock ==
  /\ last = None
  /\ LET r == player_raycast_block(player, world)
     IN  /\ player' = r.player
         /\ world' = r.world
         /\ last' = Inspected("player_raycast_block", r.hit)
  /\ steps' = steps + 1
  /\ UNCHANGED <<terminal, game, ray, frame_time, file, prev>>

Interact ==
  /\ last = None
  /\ LET r == player_interact(player, world)
     IN  /\ player' = r.player
         /\ world' = r.world
         /\ last' = Inspected("player_interact", r.hit)
  /\ steps' = steps + 1
  /\ UNCHANGED <<terminal, game, ray, frame_time, file, prev>>

BreakOnce == last = None /\ Break

PlaceOnce == last = None /\ Place

NextInspect == CastView \/ RaycastBlock \/ Interact \/ BreakOnce \/ PlaceOnce

SpecInspect == InitInteract /\ [][NextInspect]_vars

-----------------------------------------------------------------------------
(* Claims about the queries (SpecInspect) *)

Queries == {"cast_ray", "player_raycast_block", "player_interact"}

(* C17: cast_ray, player_raycast_block and player_interact leave the grid, *)
(* the player's inventory and every other player field unchanged, on hit   *)
(* and on miss; player_place_block and player_break_block change nothing   *)
(* when their ray misses.                                                  *)
C17_QueriesChangeNothing ==
  /\ last.op \in Queries => world = last.pre_world /\ player = last.pre_player
  /\ (last.op \in {"break", "place"} /\ ~last.hit.hit) =>
       world = last.pre_world /\ player = last.pre_player

(* player_interact looked at a block of the grid *)
C17_Witness ==
  /\ last.op = "player_interact" /\ last.hit.hit
  /\ last.hit.block_type # BLOCK_AIR
  /\ player.inventory[last.hit.block_type] < UINT8 - 1

(* a break or a place whose ray missed *)
MissedBreakOrPlace == last.op \in {"break", "place"} /\ ~last.hit.hit

-----------------------------------------------------------------------------
(* Specification of a fall: a non-flying player at rest in the air above a *)
(* flat floor, stepped by player_update with a fixed delta_time            *)

(* the highest drop, in cells above the standing height *)
MaxDrop == 4

(* the depth below the grid at which the model stops following a fall *)
FallLimit == 3

(* a world whose layers 0..top are dirt and whose other cells are air *)
FloorWorld(top) ==
  [world_create(MaxW, MaxH, MaxD) EXCEPT
     !.blocks = [c \in Cells(MaxW, MaxH, MaxD) |->
                   IF c[3] <= top THEN BLOCK_DIRT ELSE BLOCK_AIR]]

(* the top layer of the floor of a FloorWorld *)
FloorTop(w) ==
  CHOOSE t \in 0..(w.depth - 1) :
    /\ w.blocks[<<0, 0, t>>] # BLOCK_AIR
    /\ \A u \in (t + 1)..(w.depth - 1) : w.blocks[<<0, 0, u>>] = BLOCK_AIR

(* position.z of a player standing on the floor *)
StandingZ(w) == (FloorTop(w) + 1) * Unit + PLAYER_HEIGHT

FrameTimes == {1, 2}

InitPhysics ==
  /\ \E top \in 0..(MaxD - 1) : world = FloorWorld(top)
  /\ \E drop \in 0..(2 * MaxDrop) :
       player = [player_create EXCEPT
                   !.position = <<Unit + Half, Unit,
                                  StandingZ(world) + drop * Half>>]
  /\ ray = [position |-> <<0, 0, 0>>, direction |-> <<0, 0, 1>>,
            max_distance |-> REACH]
  /\ frame_time \in FrameTimes
  /\ file = NoFile
  /\ terminal = terminal_init("posix")
  /\ game = game_init
  /\ last = [op |-> "none", big |-> FALSE, start |-> player.position[3]]
  /\ prev = None
  /\ steps = 0

Update ==
  /\ player.position[3] > 0 - FallLimit * Unit
  /\ LET r == player_update(player, world, frame_time)
     IN  /\ player' = r.player
         /\ last' = [op |-> "update", ground_z |-> r.ground_z,
                     onGround |-> r.onGround, start |-> last.start,
                     big |-> last.big \/ Abs(r.moved) >= Unit]
  /\ steps' = IF steps < 1 THEN steps + 1 ELSE steps
  /\ UNCHANGED <<terminal, game, world, ray, frame_time, file, prev>>

NextPhysics == Update

(* the game loop calls game_update, and so player_update, in every frame *)
SpecPhysics == InitPhysics /\ [][NextPhysics]_vars /\ WF_vars(Update)

-----------------------------------------------------------------------------
(* Claims about the fall (SpecPhysics) *)

Landed ==
  /\ player.grounded
  /\ player.velocity[3] = 0
  /\ player.position[3] = StandingZ(world)

(* C8: for any fixed delta_time the falling player eventually *)
(* is, and from then on stays, grounded with velocity.z = 0 at             *)
(* position.z = groundCellZ + 1 + height.                                  *)
C8_EventuallyLanded == <>[]Landed

(* a state that player_update maps to itself although the player is not    *)
(* standing on the floor: the ticks go on and change nothing               *)
StuckOffTheFloor ==
  /\ last.op = "update" /\ ~Landed
  /\ player.position[3] > 0 - FallLimit * Unit
  /\ player_update(player, world, frame_time).player = player

(* while no tick moves the player by a full cell or more, the fall does    *)
(* end standing on the floor                                               *)
LandsUnlessBigStep == (<>[]Landed) \/ (<>last.big)

(* the player has landed after a fall of two cells or more made of ticks   *)
(* shorter than a cell                                                     *)
LandedAfterFall ==
  /\ Landed /\ last.op = "update" /\ ~last.big
  /\ last.start >= StandingZ(world) + 2 * Unit

-----------------------------------------------------------------------------
(* Specification of grid access: one call of world_get_block,              *)
(* world_is_solid or world_set_block with coordinates in and around the    *)
(* grid                                                                    *)

(* a grid filled with one block type *)
FullWorld(type) ==
  [world_create(MaxW, MaxH, MaxD) EXCEPT
     !.blocks = [c \in Cells(MaxW, MaxH, MaxD) |-> type]]

GridWorlds ==
  SparseWorlds(MaxW, MaxH, MaxD, {BLOCK_STONE, BLOCK_WATER})
    \cup {FullWorld(BLOCK_STONE)}

(* the coordinates of the calls: the grid and one layer around it *)
GridCoords == (-1..MaxW) \X (-1..MaxH) \X (-1..MaxD)

SetTypes == {BLOCK_AIR, BLOCK_BRICK}

InitGrid ==
  /\ world \in GridWorlds
  /\ player = player_create
  /\ ray = [position |-> <<0, 0, 0>>, direction |-> <<0, 0, 1>>,
            max_distance |-> REACH]
  /\ frame_time = 1
  /\ file = NoFile
  /\ terminal = terminal_init("posix")
  /\ game = game_init
  /\ last = None
  /\ prev = None
  /\ steps = 0

GridCall(op, c, type, result) ==
  [op |-> op, x |-> c[1], y |-> c[2], z |-> c[3], type |-> type,
   result |-> result, pre_world |-> world]

WorldGetBlock ==
  /\ last = None
  /\ \E c \in GridCoords :
       last' = GridCall("world_get_block", c, BLOCK_AIR,
                        world_get_block(world, c[1], c[2], c[3]))
  /\ steps' = steps + 1
  /\ UNCHANGED <<terminal, game, world, player, ray, frame_time, file, prev>>

WorldIsSolid ==
  /\ last = None
  /\ \E c \in GridCoords :
       last' = GridCall("world_is_solid", c, BLOCK_AIR,
                        IF world_is_solid(world, c[1], c[2], c[3])
                        THEN 1 ELSE 0)
  /\ steps' = steps + 1
  /\ UNCHANGED <<terminal, game, world, player, ray, frame_time, file, prev>>

WorldSetBlock ==
  /\ last = None
  /\ \E c \in GridCoords, type \in SetTypes :
       /\ world' = world_set_block(world, c[1], c[2], c[3], type)
       /\ last' = GridCall("world_set_block", c, type, 0)
  /\ steps' = steps + 1
  /\ UNCHANGED <<terminal, game, player, ray, frame_time, file, prev>>

NextGrid == WorldGetBlock \/ WorldIsSolid \/ WorldSetBlock

SpecGrid == InitGrid /\ [][NextGrid]_vars

-----------------------------------------------------------------------------
(* Claims about grid access (SpecGrid) *)

GridOps == {"world_get_block", "world_is_solid", "world_set_block"}

OutOfRangeCall ==
  /\ last.op \in GridOps
  /\ ~(/\ last.x >= 0 /\ last.x < last.pre_world.width
       /\ last.y >= 0 /\ last.y < last.pre_world.height
       /\ last.z >= 0 /\ last.z < last.pre_world.depth)

(* C9: for every coordinate outside [0,W)x[0,H)x[0,D) and any grid         *)
(* contents, world_get_block returns air, world_is_solid returns false,    *)
(* world_set_block changes no cell, and none of them touches the world.    *)
C9_OutOfRangeInert ==
  OutOfRangeCall =>
    /\ last.op = "world_get_block" => last.result = BLOCK_AIR
    /\ last.op = "world_is_solid" => last.result = 0
    /\ world = last.pre_world
    /\ DOMAIN world.blocks = Cells(world.width, world.height, world.depth)

(* a block was written to a coordinate just outside a grid full of stone   *)
C9_Witness ==
  /\ OutOfRangeCall
  /\ last.op = "world_set_block" /\ last.type = BLOCK_BRICK
  /\ last.x = last.pre_world.width /\ last.y = 0 /\ last.z = 0
  /\ \A c \in DOMAIN world.blocks : world.blocks[c] = BLOCK_STONE

-----------------------------------------------------------------------------
(* Specification of persistence: a world is saved to a file and a world is *)
(* loaded from the file, each with or without input/output failures        *)

PersistWorlds ==
  { [w EXCEPT !.time_of_day = t, !.sky_brightness = b] :
      w \in SparseWorlds(MaxW, MaxH, MaxD, {BLOCK_STONE, BLOCK_BRICK}),
      t \in {F32_HALF, F32_ONE}, b \in {F32_ONE, F32_HALF} }

(* the numbers of bytes up to which a transfer of n bytes can get *)
CutPoints(n) == {0, HEADER_SIZE - 1, HEADER_SIZE, n - TRAILER_SIZE, n - 1, n}

InitPersist ==
  /\ world \in PersistWorlds
  /\ player = player_create
  /\ ray = [position |-> <<0, 0, 0>>, direction |-> <<0, 0, 1>>,
            max_distance |-> REACH]
  /\ frame_time = 1
  /\ file = NoFile
  /\ terminal = terminal_init("posix")
  /\ game = game_init
  /\ last = None
  /\ prev = None
  /\ steps = 0

WorldSave ==
  /\ last = None
  /\ \E open_ok \in BOOLEAN,
        written \in CutPoints(HEADER_SIZE + Cardinality(DOMAIN world.blocks)
                                + TRAILER_SIZE) :
       LET r == world_save(world, file, open_ok, written)
       IN  /\ file' = r.file
           /\ last' = [op |-> "world_save", result |-> r.result,
                       open_ok |-> open_ok,
                       complete |-> open_ok /\ Len(r.file) =
                          HEADER_SIZE + Cardinality(DOMAIN world.blocks)
                            + TRAILER_SIZE]
  /\ steps' = steps + 1
  /\ UNCHANGED <<terminal, game, world, player, ray, frame_time, prev>>

WorldLoad ==
  /\ last.op # "world_load"
  /\ \E open_ok \in BOOLEAN, readable \in CutPoints(Len(file)) \cap Nat :
       last' = [op |-> "world_load",
                result |-> world_load(file, open_ok, readable),
                live |-> world_load_live(file, open_ok, readable),
                open_ok |-> open_ok, readable |-> readable,
                complete |-> open_ok /\ readable = Len(file)]
  /\ prev' = last
  /\ steps' = steps + 1
  /\ UNCHANGED <<terminal, game, world, player, ray, frame_time, file>>

NextPersist == WorldSave \/ WorldLoad

SpecPersist == InitPersist /\ [][NextPersist]_vars

-----------------------------------------------------------------------------
(* Claims about persistence (SpecPersist) *)

(* a save and then a load of the file, all input/output succeeding *)
SavedThenLoaded ==
  /\ last.op = "world_load" /\ last.complete
  /\ prev.op = "world_save" /\ prev.complete

(* C10: world_save followed by world_load of the same file, all            *)
(* input/output succeeding, gives a world with the same width, height and  *)
(* depth, the same block id in every cell and the same time_of_day and     *)
(* sky_brightness, for every grid contents.                                *)
C10_SaveLoadRoundTrip ==
  SavedThenLoaded =>
    /\ last.result # NULL
    /\ last.result.width = world.width
    /\ last.result.height = world.height
    /\ last.result.depth = world.depth
    /\ last.result.blocks = world.blocks
    /\ last.result.time_of_day = world.time_of_day
    /\ last.result.sky_brightness = world.sky_brightness

(* a world of two different blocks in cells that differ in x and z, with   *)
(* values other than those of a new world, came back from the file         *)
C10_Witness ==
  /\ SavedThenLoaded
  /\ last.result # NULL
  /\ last.result.blocks[<<1, 0, 0>>] = BLOCK_STONE
  /\ last.result.blocks[<<0, 0, 1>>] = BLOCK_BRICK
  /\ last.result.time_of_day = F32_ONE
  /\ last.result.sky_brightness = F32_HALF


(* the save wrote every field: the file holds the dimensions, every block  *)
(* row and both floats                                                     *)
SaveComplete == last.op = "world_save" /\ last.complete

(* C15: world_save returns success (1) only when every field (the three    *)
(* dimensions, every block row, time_of_day, sky_brightness) was written;  *)
(* if opening the file or any write fails it returns failure (0).          *)
C15_SaveReportsFailure ==
  last.op = "world_save" => (last.result = 1 <=> SaveComplete)

(* a failed open is reported *)
SaveReportsFailedOpen ==
  (last.op = "world_save" /\ ~last.open_ok) => last.result = 0

(* the bytes the load could read *)
LoadRead ==
  SubSeq(file, 1, IF last.readable < Len(file) THEN last.readable
                  ELSE Len(file))

(* the number of bytes of the file whose dimensions were read *)
LoadNeeds ==
  HEADER_SIZE
    + Value4(SubSeq(LoadRead, 1, 4)) * Value4(SubSeq(LoadRead, 5, 8))
        * Value4(SubSeq(LoadRead, 9, 12))
    + TRAILER_SIZE

(* the open failed, or a read failed or was short *)
LoadFailed ==
  \/ ~last.open_ok
  \/ Len(LoadRead) < HEADER_SIZE
  \/ Len(LoadRead) < LoadNeeds

(* C16: world_load returns NULL whenever the file cannot be opened or any  *)
(* read (a dimension, a block row, time_of_day, sky_brightness) fails or   *)
(* is short, and then every allocation made for the partially built world  *)
(* has been released; a result other than NULL has every cell and both     *)
(* floats read from the file.                                              *)
C16_LoadAllOrNothing ==
  last.op = "world_load" =>
    /\ LoadFailed => last.result = NULL /\ last.live = {}
    /\ last.result # NULL =>
         /\ ~LoadFailed
         /\ \A c \in DOMAIN last.result.blocks :
              last.result.blocks[c] =
                LoadRead[HEADER_SIZE + LoadedIndex(last.result, c) + 1]
         /\ last.result.time_of_day =
              Value4(SubSeq(LoadRead, LoadNeeds - 7, LoadNeeds - 4))
         /\ last.result.sky_brightness =
              Value4(SubSeq(LoadRead, LoadNeeds - 3, LoadNeeds))

(* the reads failed after the grid had been built: the dimensions and      *)
(* every block row were read, the floats were not                          *)
C16_Witness ==
  /\ last.op = "world_load" /\ last.open_ok
  /\ Len(LoadRead) >= HEADER_SIZE
  /\ Len(LoadRead) >= LoadNeeds - TRAILER_SIZE
  /\ Len(LoadRead) < LoadNeeds
  /\ last.result = NULL /\ last.live = {}
-----------------------------------------------------------------------------
(* Specification of lighting: one call of world_get_brightness on a world  *)
(* of any sky brightness                                                   *)

(* the bits of 0.0f, 0.125f, 0.25f, 0.5f, 1.0f, 2.0f and -1.0f *)
SkyValues ==
  {0, 1040187392, 1048576000, F32_HALF, F32_ONE, 1073741824, -1082130432}

(* a column of stone, deep enough to dim a full sky below the least        *)
(* brightness                                                              *)
StoneColumn ==
  [world_create(1, 1, MaxD + 4) EXCEPT
     !.blocks = [c \in Cells(1, 1, MaxD + 4) |-> BLOCK_STONE]]

LightWorlds ==
  { [w EXCEPT !.sky_brightness = b] :
      w \in SparseWorlds(MaxW, MaxH, MaxD, {BLOCK_STONE, BLOCK_WATER})
              \cup {FullWorld(BLOCK_STONE), StoneColumn},
      b \in SkyValues }

InitLight ==
  /\ world \in LightWorlds
  /\ player = player_create
  /\ ray = [position |-> <<0, 0, 0>>, direction |-> <<0, 0, 1>>,
            max_distance |-> REACH]
  /\ frame_time = 1
  /\ file = NoFile
  /\ terminal = terminal_init("posix")
  /\ game = game_init
  /\ last = None
  /\ prev = None
  /\ steps = 0

WorldGetBrightness ==
  /\ last = None
  /\ \E c \in GridCoords :
       last' = [op |-> "world_get_brightness",
                x |-> c[1], y |-> c[2], z |-> c[3],
                above |-> BlocksAbove(world, c[1], c[2], c[3]),
                result |-> world_get_brightness(world, c[1], c[2], c[3])]
  /\ steps' = steps + 1
  /\ UNCHANGED <<terminal, game, world, player, ray, frame_time, file, prev>>

NextLight == WorldGetBrightness

SpecLight == InitLight /\ [][NextLight]_vars

-----------------------------------------------------------------------------
(* Claims about lighting (SpecLight) *)

BrightnessInBounds ==
  /\ last.op = "world_get_brightness"
  /\ last.x >= 0 /\ last.x < world.width
  /\ last.y >= 0 /\ last.y < world.height
  /\ last.z >= 0 /\ last.z < world.depth

-----------------------------------------------------------------------------
(* Specification of rotation: player_rotate called with deltas of either   *)
(* sign, small and large                                                   *)

(* the longest sequence of rotations *)
MaxRotations == 3

(* 2^-25, 0.75, 1.0 and 7.0 radians *)
PitchDeltas == {0, 2, 0 - 2, 3 * Pow2(ANGLE_BITS - 2), Pow2(ANGLE_BITS),
                0 - Pow2(ANGLE_BITS), 0 - 7 * Pow2(ANGLE_BITS)}
YawDeltas == {0, 2, 0 - 2, Pow2(ANGLE_BITS), 0 - Pow2(ANGLE_BITS),
              7 * Pow2(ANGLE_BITS), 0 - 7 * Pow2(ANGLE_BITS)}

InitRotate ==
  /\ world = world_create(MaxW, MaxH, MaxD)
  /\ player = player_create
  /\ ray = [position |-> <<0, 0, 0>>, direction |-> <<0, 0, 1>>,
            max_distance |-> REACH]
  /\ frame_time = 1
  /\ file = NoFile
  /\ terminal = terminal_init("posix")
  /\ game = game_init
  /\ last = None
  /\ prev = None
  /\ steps = 0

Rotate ==
  /\ steps < MaxRotations
  /\ \E pitch \in PitchDeltas, yaw \in YawDeltas :
       /\ player' = player_rotate(player, pitch, yaw)
       /\ last' = [op |-> "player_rotate", pitch |-> pitch, yaw |-> yaw,
                   pre_rotation |-> player.rotation]
  /\ steps' = steps + 1
  /\ UNCHANGED <<terminal, game, world, ray, frame_time, file, prev>>

NextRotate == Rotate

SpecRotate == InitRotate /\ [][NextRotate]_vars

-----------------------------------------------------------------------------
(* Claims about rotation (SpecRotate) *)

PitchInRange ==
  /\ player.rotation.pitch >= 0 - PITCH_LIMIT
  /\ player.rotation.pitch <= PITCH_LIMIT

PitchSaturates ==
  /\ (last.pre_rotation.pitch = PITCH_LIMIT /\ last.pitch >= 0)
       => player.rotation.pitch = PITCH_LIMIT
  /\ (last.pre_rotation.pitch = 0 - PITCH_LIMIT /\ last.pitch <= 0)
       => player.rotation.pitch = 0 - PITCH_LIMIT

(* C12: after any sequence of player_rotate calls the yaw is in [0, 2*pi)  *)
(* and the pitch in [-1.5, 1.5]; a pitch at +1.5 (or -1.5) stays there     *)
(* under further deltas of the same sign.                                  *)
C12_RotationInRange ==
  last.op = "player_rotate" =>
    /\ player.rotation.yaw >= 0 /\ player.rotation.yaw < TWO_PI
    /\ PitchInRange
    /\ PitchSaturates

(* the part of C12 about the pitch *)
PitchClamped == last.op = "player_rotate" => PitchInRange /\ PitchSaturates

(* a pitch kept at its limit by a further delta of the same sign *)
PitchHeldAtLimit ==
  /\ last.op = "player_rotate"
  /\ last.pre_rotation.pitch = PITCH_LIMIT /\ last.pitch > 0
  /\ player.rotation.pitch = PITCH_LIMIT

-----------------------------------------------------------------------------
(* Specification of input: frames of game_process_input and bare polls of  *)
(* terminal_process_input (the title screen), each reading a few bytes, on *)
(* either build of terminal.c                                              *)

(* the longest sequence of polls *)
MaxPolls == 2

InputBytes ==
  {CH_SPACE, CH_ESC, CH_LF, CH_CR, CH_PREFIX, Chr("["), Chr("A"), Chr("H"),
   Chr("p")}

(* the bytes of one poll: none, one key, two keys, or an arrow-up sequence *)
PollInputs ==
  {<<>>} \cup {<<a>> : a \in InputBytes}
    \cup {<<Chr("A"), Chr("p")>>, <<CH_SPACE, Chr("A")>>,
          <<CH_PREFIX, Chr("H")>>, <<CH_ESC, Chr("["), Chr("A")>>}

Bytes(in) == {in[i] : i \in 1..Len(in)}

InitInput ==
  /\ world = FloorWorld(0)
  /\ player = [player_create EXCEPT
                 !.position = <<Unit + Half, Unit, StandingZ(world)>>,
                 !.grounded = TRUE]
  /\ ray = [position |-> <<0, 0, 0>>, direction |-> <<0, 0, 1>>,
            max_distance |-> REACH]
  /\ frame_time = 1
  /\ file = NoFile
  /\ \E platform \in {"posix", "win32"} : terminal = terminal_init(platform)
  /\ game = game_init
  /\ last = [op |-> "none", read |-> {}, read_before |-> {}]
  /\ prev = None
  /\ steps = 0

(* a poll outside game_process_input: show_title_screen *)
TerminalProcessInput ==
  /\ steps < MaxPolls
  /\ \E in \in PollInputs :
       /\ terminal' = terminal_process_input(terminal, in)
       /\ last' = [op |-> "terminal_process_input", input |-> in,
                   read |-> Bytes(in),
                   read_before |-> last.read_before \cup last.read,
                   pre_paused |-> game.paused, jumped |-> FALSE]
  /\ steps' = steps + 1
  /\ UNCHANGED <<world, player, ray, frame_time, file, game, prev>>

GameProcessInput ==
  /\ steps < MaxPolls
  /\ game.running
  /\ \E in \in PollInputs :
       LET r == game_process_input(game, terminal, player, world, in,
                                   frame_time)
       IN  /\ game' = r.game
           /\ terminal' = r.terminal
           /\ player' = r.player
           /\ world' = r.world
           /\ last' = [op |-> "game_process_input", input |-> in,
                       read |-> Bytes(in),
                       read_before |-> last.read_before \cup last.read,
                       pre_paused |-> game.paused, jumped |-> r.jumped]
  /\ steps' = steps + 1
  /\ UNCHANGED <<ray, frame_time, file, prev>>

NextInput == TerminalProcessInput \/ GameProcessInput

SpecInput == InitInput /\ [][NextInput]_vars

-----------------------------------------------------------------------------
(* Claims about input (SpecInput) *)

Polled == last.op \in {"terminal_process_input", "game_process_input"}

(* the poll read exactly the bytes of one named key: the special key it is *)
NamedKeyRead(key) ==
  /\ Polled
  /\ \/ key = KEY_ENTER /\ terminal.platform = "posix" /\ last.input = <<CH_LF>>
     \/ key = KEY_ENTER /\ terminal.platform = "win32" /\ last.input = <<CH_CR>>
     \/ key = KEY_ESCAPE /\ last.input = <<CH_ESC>>
     \/ key = KEY_SPACE /\ last.input = <<CH_SPACE>>
     \/ /\ key = KEY_UP /\ terminal.platform = "posix"
        /\ last.input = <<CH_ESC, Chr("["), Chr("A")>>
     \/ /\ key = KEY_UP /\ terminal.platform = "win32"
        /\ last.input = <<CH_PREFIX, Chr("H")>>

(* C13: in a non-paused frame whose poll reads a space byte,               *)
(* terminal_key_pressed(' ') is true for that frame and player_jump is     *)
(* invoked; and a named special key read during a poll is reported as      *)
(* pressed for that frame.                                                 *)
C13_SpaceJumps ==
  /\ (/\ last.op = "game_process_input" /\ ~last.pre_paused
      /\ last.input = <<CH_SPACE>>)
       => terminal_key_pressed(terminal, CH_SPACE) /\ last.jumped
  /\ \A key \in {KEY_ENTER, KEY_ESCAPE, KEY_SPACE, KEY_UP} :
       NamedKeyRead(key) => terminal_special_key_pressed(terminal, key)

(* C14: after each poll a key 0..255 is reported pressed iff it was read   *)
(* during that poll, and reported held iff it was read during some earlier *)
(* poll.                                                                   *)
C14_PressedAndHeld ==
  Polled =>
    \A key \in 0..(KEY_TABLE_SIZE - 1) :
      /\ terminal_key_pressed(terminal, key) <=> key \in last.read
      /\ terminal_key_held(terminal, key) <=> key \in last.read_before

(* the bytes that neither build treats as a named key or as part of one *)
PlainBytes == {Chr("A"), Chr("H"), Chr("p"), Chr("[")}

(* polls of plain bytes do latch as C14 says *)
PlainKeysLatch ==
  (Polled /\ (last.read \cup last.read_before) \subseteq PlainBytes) =>
    \A key \in 0..(KEY_TABLE_SIZE - 1) :
      /\ terminal_key_pressed(terminal, key) <=> key \in last.read
      /\ terminal_key_held(terminal, key) <=> key \in last.read_before

(* a plain key pressed in one poll is held, and no longer pressed, in the  *)
(* next                                                                    *)
PlainKeyHeld ==
  /\ Polled /\ last.read = {} /\ last.read_before = {Chr("A")}
  /\ terminal_key_held(terminal, Chr("A"))
  /\ ~terminal_key_pressed(terminal, Chr("A"))

-----------------------------------------------------------------------------
(* Specification of a game: world_create, the generation of game_init, and *)
(* then frames of game_process_input that select slots, place and break    *)

(* the smallest world that holds the house and lets a tree grow *)
BuildWidth == 2 * HOUSE_WIDTH + 1
BuildHeight == 2 * HOUSE_LENGTH + 1
BuildDepth == GROUND_HEIGHT + 6

Columns(w) == (0..(w.width - 1)) \X (0..(w.height - 1))

(* heights below the minimum, alternating about it, and above the world *)
Heightmaps(w) ==
  { [c \in Columns(w) |-> 0],
    [c \in Columns(w) |-> GROUND_HEIGHT + (c[1] % 2)],
    [c \in Columns(w) |-> IF c[1] < HOUSE_WIDTH THEN GROUND_HEIGHT
                          ELSE w.depth + 2] }

Moistures(w) ==
  { [c \in Columns(w) |-> "grass"],
    [c \in Columns(w) |->
       IF (c[1] + c[2]) % 3 = 0 THEN "wet"
       ELSE IF (c[1] + c[2]) % 3 = 1 THEN "sandy" ELSE "grass"] }

(* tree_count *)
TreeCount(w) == (w.width * w.height) \div TREE_AREA

(* the trees: tx and ty from random_int(3, width - 4) and                  *)
(* random_int(3, height - 4), tree_height from random_int(4, 7)            *)
TreeLists(w) ==
  { <<[tx |-> TREE_MARGIN, ty |-> TREE_MARGIN, tree_height |-> th], t>> :
      th \in {TREE_HEIGHT_MIN, TREE_HEIGHT_MAX},
      t \in { [tx |-> w.width - 1 - TREE_MARGIN,
               ty |-> w.height - 1 - TREE_MARGIN,
               tree_height |-> TREE_HEIGHT_MIN + 1] } }

(* an eye beside the first tree and one beside the wall of the house *)
BuildPositions ==
  { <<Unit + Half, TREE_MARGIN * Unit + Half, (GROUND_HEIGHT + 1) * Unit + Half>>,
    <<(HOUSE_WIDTH - 1) * Unit + Half, (HOUSE_LENGTH + 1) * Unit + Half,
      GROUND_HEIGHT * Unit + Half>> }

(* place, break, select slot 4, select slot 9 *)
BuildInputs ==
  { <<Chr("e")>>, <<Chr("r")>>, <<Chr("0") + 4>>, <<Chr("0") + 9>> }

InitBuild ==
  /\ world = world_create(BuildWidth, BuildHeight, BuildDepth)
  /\ \E pos \in BuildPositions, pitch \in {0 - EighthTurn, 0},
        yaw \in {QuarterTurn(0)} :
       player = [player_create EXCEPT
                   !.position = pos,
                   !.rotation = [pitch |-> pitch, yaw |-> yaw]]
  /\ ray = [position |-> <<0, 0, 0>>, direction |-> <<0, 0, 1>>,
            max_distance |-> REACH]
  /\ frame_time = 1
  /\ file = NoFile
  /\ terminal = terminal_init("posix")
  /\ game = game_init
  /\ last = None
  /\ prev = None
  /\ steps = 0

(* game_init: world_generate_terrain and world_generate_structures *)
Generate ==
  /\ prev = None
  /\ \E raw \in Heightmaps(world), moisture \in Moistures(world),
        trees \in TreeLists(world) :
       world' = Then(world_generate_terrain(world, raw, moisture, trees),
                     world_generate_structures)
  /\ prev' = [op |-> "game_init"]
  /\ UNCHANGED <<terminal, game, player, ray, frame_time, file, last, steps>>

(* a frame of the game that was generated *)
Frame ==
  /\ prev.op = "game_init"
  /\ steps < MaxPolls
  /\ game.running
  /\ \E in \in BuildInputs :
       LET r == game_process_input(game, terminal, player, world, in,
                                   frame_time)
       IN  /\ game' = r.game
           /\ terminal' = r.terminal
           /\ player' = r.player
           /\ world' = r.world
           /\ last' = [op |-> "game_process_input", input |-> in,
                       changed |-> r.world # world]
  /\ steps' = steps + 1
  /\ UNCHANGED <<ray, frame_time, file, prev>>

NextBuild == Generate \/ Frame

SpecBuild == InitBuild /\ [][NextBuild]_vars

-----------------------------------------------------------------------------
(* Claims about the ids stored (SpecBuild) *)

Holds(type) == \E c \in DOMAIN world.blocks : world.blocks[c] = type

(* C18: in every state reachable from world_create through terrain and     *)
(* structure generation and any sequence of place (with selected slot      *)
(* 1..9) and break operations, every stored cell id is a valid index into  *)
(* the world's registry (id < num_block_types).                            *)
C18_StoredIdsValid ==
  {world.blocks[c] : c \in DOMAIN world.blocks}
    \subseteq 0..(world.num_block_types - 1)

(* a generated world with a tree and the house, changed by a frame that    *)
(* placed the block of slot 4                                              *)
C18_Witness ==
  /\ prev.op = "game_init"
  /\ Holds(BLOCK_LEAVES) /\ Holds(BLOCK_BRICK) /\ Holds(BLOCK_WATER)
  /\ last.op = "game_process_input" /\ last.changed
  /\ last.input = <<Chr("e")>>
  /\ player.selected_slot = 4
  /\ player.inventory[4] < player_create.inventory[4]

-----------------------------------------------------------------------------
(* Specification of a walk against an obstacle: a non-flying player in    *)
(* the air or on a flat floor, next to a column that holds blocks, moved   *)
(* by player_move at most once a frame while in the air and stepped by     *)
(* player_update in every frame                                            *)

WalkWidth == MaxW + 1
WalkHeight == MaxH + 1
WalkDepth == MaxD + 3

(* the column of the obstacle, and the row the player walks in *)
ObstacleX == WalkWidth - 2
WalkY == WalkHeight - 2

(* the layers of the obstacle column that hold a block: none, one at the   *)
(* head of a standing player, one above it, or a wall                      *)
Obstacles == {{}, {2}, {3}, 1..(WalkDepth - 1)}

(* a world with a dirt floor in layer 0 and stone in the obstacle column *)
WalkWorld(layers) ==
  [world_create(WalkWidth, WalkHeight, WalkDepth) EXCEPT
     !.blocks = [c \in Cells(WalkWidth, WalkHeight, WalkDepth) |->
                   IF c[3] = 0 THEN BLOCK_DIRT
                   ELSE IF c[1] = ObstacleX /\ c[2] = WalkY /\ c[3] \in layers
                   THEN BLOCK_STONE
                   ELSE BLOCK_AIR]]

(* the starts: two cells or two units before the obstacle, from standing   *)
(* height upwards in half cells                                            *)
WalkStarts ==
  {<<x, WalkY * Unit + Half, Unit + PLAYER_HEIGHT + drop * Half>> :
     x \in {ObstacleX * Unit - 2, ObstacleX * Unit - Unit},
     drop \in 0..4}

InitWalk ==
  /\ \E layers \in Obstacles : world = WalkWorld(layers)
  /\ \E start \in WalkStarts :
       player = [player_create EXCEPT !.position = start]
  /\ ray = [position |-> <<0, 0, 0>>, direction |-> <<0, 0, 1>>,
            max_distance |-> REACH]
  /\ frame_time = 1
  /\ file = NoFile
  /\ terminal = terminal_init("posix")
  /\ game = game_init
  /\ last = None
  /\ prev = None
  /\ steps = 0

(* the 'i' key of a frame, pressed while the player is in the air:       *)
(* player_move forward                                                     *)
Walk ==
  /\ last.op # "player_move"
  /\ ~player.grounded
  /\ player' = player_move(player, world, 1, 0, frame_time)
  /\ last' = [op |-> "player_move"]
  /\ UNCHANGED <<terminal, game, world, ray, frame_time, file, prev, steps>>

(* game_update of a frame: player_update, followed down to FallLimit     *)
(* cells below the grid                                                    *)
WalkUpdate ==
  /\ player.position[3] > 0 - FallLimit * Unit
  /\ player' = player_update(player, world, frame_time).player
  /\ last' = [op |-> "player_update",
              tests |-> CollisionTests(player, world, frame_time)]
  /\ UNCHANGED <<terminal, game, world, ray, frame_time, file, prev, steps>>

NextWalk == Walk \/ WalkUpdate

(* the game loop calls game_update, and so player_update, in every frame *)
SpecWalk == InitWalk /\ [][NextWalk]_vars /\ WF_vars(WalkUpdate)

-----------------------------------------------------------------------------
(* Claims about the collision tests (SpecWalk) *)

(* the cell of a position *)
CellOf(pos) == [i \in 1..3 |-> Floor(pos[i])]

(* the cell of the position about to be committed is solid *)
CommittedCellSolid ==
  LET c == CellOf(last.tests.after_walls)
  IN  world_is_solid(world, c[1], c[2], c[3])

(* C21: a tick of player_update in which the X-wall test fires and the     *)
(* cell of the position about to be committed is not solid reverts only X  *)
(* and zeroes only velocity.x: tentative Z and velocity.z stay as the      *)
(* ground test left them, because the ceiling test samples the tentative   *)
(* position after the X and Y reverts.                                     *)
C21_OnlyXReverted ==
  (/\ last.op = "player_update"
   /\ last.tests.hit_x
   /\ ~CommittedCellSolid) =>
     /\ player.position[3] = last.tests.after_ground.new_pos[3]
     /\ player.velocity[3] = last.tests.after_ground.velocity[3]

(* the ground-test cell of the tick was solid *)
GroundCellSolid ==
  LET g == last.tests.after_ground
  IN  world_is_solid(world, Floor(g.new_pos[1]), Floor(g.new_pos[2]),
                     g.ground_z)

(* grounded is true iff the ground-test cell was solid in that tick *)
GroundedIffSolid ==
  last.op = "player_update" => (player.grounded <=> GroundCellSolid)

(* C22: after every player_update, grounded is true iff the ground-test    *)
(* cell was solid in that tick, and whenever grounded is true the          *)
(* committed position.z equals groundCellZ + 1 + height and velocity.z     *)
(* is 0.                                                                   *)
C22_GroundedMeansSnapped ==
  last.op = "player_update" =>
    /\ player.grounded <=> GroundCellSolid
    /\ player.grounded =>
         /\ player.position[3] =
              GroundSnap(last.tests.after_ground.ground_z, player.height)
         /\ player.velocity[3] = 0

(* the player is below the height of a player standing on the floor: it   *)
(* has left the grid through the floor                                     *)
BelowTheFloor == player.position[3] < Unit + PLAYER_HEIGHT

(* C29: a non-flying player who is airborne above the floor eventually     *)
(* becomes grounded under any horizontal movement input while              *)
(* player_update keeps being called: moving into a wall does not cancel    *)
(* gravity for ever.                                                       *)
C29_EventuallyGrounded == <>(player.grounded \/ BelowTheFloor)

(* a frame of moving into the obstacle that leaves the airborne player     *)
(* where it was                                                            *)
Hovering ==
  /\ last.op = "player_update" /\ last.tests.hit_x
  /\ ~player.grounded /\ ~BelowTheFloor
  /\ player.position[3] > Unit + PLAYER_HEIGHT
  /\ player_update(player_move(player, world, 1, 0, frame_time),
                   world, frame_time).player = player

-----------------------------------------------------------------------------
(* Claims about the cell of the player (SpecInteract) *)

(* player_is_colliding: the cell of the player's position is solid *)
player_is_colliding(p, w) ==
  world_is_solid(w, Floor(p.position[1]), Floor(p.position[2]),
                 Floor(p.position[3]))

(* C28: if the cell containing the player's position is non-solid before   *)
(* an operation, it is non-solid after it: player_place_block and          *)
(* player_break_block never leave the player inside a solid block.         *)
C28_NeverInsideSolid ==
  (/\ last.op \in {"break", "place"}
   /\ ~player_is_colliding(last.pre_player, last.pre_world)) =>
     ~player_is_colliding(player, world)

-----------------------------------------------------------------------------
(* Claims about the conservation of blocks (SpecInteract) *)

(* the number of non-air cells of a grid *)
NonAirCells(blocks) ==
  Cardinality({c \in DOMAIN blocks : blocks[c] # BLOCK_AIR})

(* the sum of the inventory counts of the ids from..MAX_BLOCK_TYPES - 1 *)
RECURSIVE CountsFrom(_, _)
CountsFrom(inventory, from) ==
  IF from > MAX_BLOCK_TYPES - 1 THEN 0
  ELSE inventory[from] + CountsFrom(inventory, from + 1)

(* the blocks in the grid and in the inventory *)
BlocksHeld(blocks, inventory) ==
  NonAirCells(blocks) + CountsFrom(inventory, BLOCK_AIR + 1)

(* player_place_block only writes into a cell that held air *)
PlaceWritesIntoAir ==
  (last.op = "place" /\ last.wrote) =>
     last.pre_blocks[<<last.cell[1], last.cell[2], last.cell[3]>>] = BLOCK_AIR

(* a break or a place keeps the number of blocks held *)
BreakAndPlaceConserve ==
  last.op \in {"break", "place"} =>
     BlocksHeld(world.blocks, player.inventory)
       = BlocksHeld(last.pre_blocks, last.pre_inventory)

(* C30: blocks are conserved and never overwritten: player_place_block     *)
(* only writes into a cell that held air immediately before, and a break   *)
(* or a place keeps the number of non-air cells plus the sum of the        *)
(* inventory counts over ids >= 1.                                         *)
C30_ConservedNeverOverwritten ==
  PlaceWritesIntoAir /\ BreakAndPlaceConserve

-----------------------------------------------------------------------------
(* Specification of a full inventory: the player is given blocks of one    *)
(* type until the count is at the top of its 8 bits, and breaks a block    *)

(* player_give_block(player, block_type, amount): += on a uint8_t *)
player_give_block(p, block_type, amount) ==
  IF block_type < MAX_BLOCK_TYPES
  THEN [p EXCEPT !.inventory[block_type] = (@ + amount) % UINT8]
  ELSE p

(* worlds with one dirt block *)
HoardWorlds ==
  {world_set_block(world_create(MaxW, MaxH, MaxD), c[1], c[2], c[3],
                   BLOCK_DIRT) : c \in Cells(MaxW, MaxH, MaxD)}

(* the amounts that bring the 64 dirt blocks of a new player to 254 and    *)
(* to 255                                                                  *)
GiveAmounts ==
  {UINT8 - 2 - player_create.inventory[BLOCK_DIRT],
   UINT8 - 1 - player_create.inventory[BLOCK_DIRT]}

InitHoard ==
  /\ world \in HoardWorlds
  /\ \E pos \in InteractPositions, pitch \in Pitches, yaw \in Yaws :
       player = [player_create EXCEPT
                   !.position = pos,
                   !.rotation = [pitch |-> pitch, yaw |-> yaw]]
  /\ ray = [position |-> <<0, 0, 0>>, direction |-> <<0, 0, 1>>,
            max_distance |-> REACH]
  /\ frame_time = 0
  /\ file = NoFile
  /\ terminal = terminal_init("posix")
  /\ game = game_init
  /\ last = None
  /\ prev = None
  /\ steps = 0

Give ==
  /\ last = None
  /\ \E amount \in GiveAmounts :
       player' = player_give_block(player, BLOCK_DIRT, amount)
  /\ last' = [op |-> "give"]
  /\ UNCHANGED <<terminal, game, world, ray, frame_time, file, prev, steps>>

HoardBreak ==
  /\ last.op # "break"
  /\ LET r == player_break_block(player, world)
     IN  /\ player' = r.player
         /\ world' = r.world
         /\ last' = Record("break", r)
  /\ UNCHANGED <<terminal, game, ray, frame_time, file, prev, steps>>

NextHoard == Give \/ HoardBreak

SpecHoard == InitHoard /\ [][NextHoard]_vars

-----------------------------------------------------------------------------
(* Claims about the inventory counts (SpecHoard) *)

(* C25: inventory counts do not wrap: a successful break leaves the count  *)
(* of the block's id equal to the count before plus 1, even when the       *)
(* count before is 255, and decreases no count.                            *)
C25_BreakAddsOne ==
  (last.op = "break" /\ last.wrote) =>
     /\ player.inventory[last.block_type]
          = last.pre_inventory[last.block_type] + 1
     /\ \A id \in DOMAIN player.inventory :
          player.inventory[id] >= last.pre_inventory[id]

(* below the top of the 8 bits a successful break adds one to the count    *)
(* of the id it read and leaves the other counts                           *)
BreakAddsOneBelowTop ==
  (/\ last.op = "break" /\ last.wrote
   /\ last.pre_inventory[last.block_type] < UINT8 - 1) =>
     player.inventory =
       [last.pre_inventory EXCEPT ![last.block_type] = @ + 1]

-----------------------------------------------------------------------------
(* raycaster.c: the traversal loop of cast_ray, one iteration at a time,   *)
(* with t_max, t_delta and the distances as floats.  A positive float is   *)
(* the pair of its 24-bit significand and its exponent, m * 2^e with       *)
(* 2^23 <= m < 2^24; zero is (0, 0)                                        *)

Float(m, e) == [m |-> m, e |-> e]

FLOAT_ZERO == Float(0, 0)

(* the float of a positive integer n times 2^e *)
RECURSIVE FloatOf(_, _)
FloatOf(n, e) ==
  IF n = 0 THEN FLOAT_ZERO
  ELSE IF n < Pow2(F32_DIGITS - 1) THEN FloatOf(2 * n, e - 1)
  ELSE Float(n, e)

(* 1.0f, 1e30f (0x1.93e594p+99) and FLT_MAX (0x1.fffffep+127) *)
FLOAT_ONE == FloatOf(1, 0)
FLOAT_1E30 == Float(13234890, 76)
FLOAT_MAX == Float(Pow2(F32_DIGITS) - 1, 104)

(* a < b on floats that are not negative *)
FloatLess(a, b) ==
  IF b.m = 0 THEN FALSE
  ELSE IF a.m = 0 THEN TRUE
  ELSE a.e < b.e \/ (a.e = b.e /\ a.m < b.m)

(* m * 2^e with m < 2^25 and a remainder of rem / 2^bits of a unit,        *)
(* rounded to the nearest float, ties to even                              *)
FloatRound(m, e, rem, bits) ==
  LET wide == m >= Pow2(F32_DIGITS)
      m1 == IF wide THEN m \div 2 ELSE m
      e1 == IF wide THEN e + 1 ELSE e
      rem1 == IF wide THEN (m % 2) * Pow2(bits) + rem ELSE rem
      half == IF wide THEN Pow2(bits) ELSE Pow2(bits - 1)
      up == IF bits = 0 /\ ~wide THEN FALSE
            ELSE rem1 > half \/ (rem1 = half /\ m1 % 2 = 1)
      m2 == IF up THEN m1 + 1 ELSE m1
  IN  IF m2 >= Pow2(F32_DIGITS) THEN Float(m2 \div 2, e1 + 1)
      ELSE Float(m2, e1)

(* a + b on floats that are not negative: the exact sum rounded once; an   *)
(* addend below half a unit in the last place of the other is absorbed     *)
FloatAdd(a, b) ==
  IF a.m = 0 THEN b
  ELSE IF b.m = 0 THEN a
  ELSE
    LET hi == IF FloatLess(a, b) THEN b ELSE a
        lo == IF FloatLess(a, b) THEN a ELSE b
        d == hi.e - lo.e
    IN  IF d > F32_DIGITS + 1 THEN hi
        ELSE FloatRound(hi.m + lo.m \div Pow2(d), hi.e, lo.m % Pow2(d), d)

(* the float of q quarters of a cell; positions on the quarter grid and    *)
(* their differences are exact                                             *)
Quarter == Unit \div 4
FloatOfUnits(u) == FloatOf(u \div Quarter, -2)

(* a float below 2^23 in 1/Unit cells *)
UnitsOfFloat(f) == IF f.m = 0 THEN 0 ELSE (f.m * Unit) \div Pow2(0 - f.e)

(* vector.c: a direction has its components in 1/DIR_ONE; the length       *)
(* below which vec3_normalize returns the zero vector is 0.0001f           *)
DIR_ONE == 20000
NORMALIZE_MIN == DIR_ONE \div 10000

(* vec3_normalize(v) of a vector along one axis, or shorter than           *)
(* NORMALIZE_MIN: its components are -1.0f, 0.0f or 1.0f                   *)
vec3_normalize(v) ==
  IF Len2(v) < NORMALIZE_MIN * NORMALIZE_MIN THEN <<0, 0, 0>>
  ELSE [i \in 1..3 |-> AxisStep(v[i])]

(* t_delta of an axis: 1e30f, or 1.0f / 1.0f *)
FloatDelta(d) == IF d = 0 THEN FLOAT_1E30 ELSE FLOAT_ONE

(* the initial t_max of an axis: t_delta * the distance to the next face *)
FloatTMax(d, p) ==
  IF d = 0 THEN FLOAT_1E30
  ELSE IF d > 0 THEN FloatOfUnits((Floor(p) + 1) * Unit - p)
  ELSE FloatOfUnits(p - Floor(p) * Unit)

(* the axis the loop steps along, on floats *)
FloatClosestAxis(t_max) ==
  IF FloatLess(t_max[1], t_max[2]) /\ FloatLess(t_max[1], t_max[3]) THEN 1
  ELSE IF FloatLess(t_max[2], t_max[3]) THEN 2
  ELSE 3

(* the variables of cast_ray when it reaches its loop (raycaster.c 30-104) *)
LoopStart(position, direction, max_distance) ==
  LET ray_dir == vec3_normalize(direction)
      map == [i \in 1..3 |-> Floor(position[i])]
      t_max == [i \in 1..3 |-> FloatTMax(ray_dir[i], position[i])]
  IN  [op |-> "start", running |-> TRUE, stepped |-> FALSE,
       map |-> map, t_max |-> t_max, distance |-> FLOAT_ZERO, face |-> 0,
       result |-> [hit |-> FALSE, distance |-> max_distance],
       axis |-> 0, pre_t_max |-> t_max, pre_map |-> map,
       pre_distance |-> FLOAT_ZERO]

(* the test of the while and one pass of its body (raycaster.c 106-154):   *)
(* the variables of the loop after it, with the axis it stepped along and  *)
(* the variables before it                                                 *)
LoopIteration(w, r, s) ==
  LET ray_dir == vec3_normalize(r.direction)
      axis == FloatClosestAxis(s.t_max)
      distance == s.t_max[axis]
      t_max == [s.t_max EXCEPT
                  ![axis] = FloatAdd(@, FloatDelta(ray_dir[axis]))]
      map == [s.map EXCEPT ![axis] = @ + ray_dir[axis]]
      face == FaceOf(axis, ray_dir[axis])
      after == [op |-> "iteration", running |-> TRUE, stepped |-> TRUE,
                map |-> map, t_max |-> t_max, distance |-> distance,
                face |-> face, result |-> s.result,
                axis |-> axis, pre_t_max |-> s.t_max, pre_map |-> s.map,
                pre_distance |-> s.distance]
  IN  IF ~FloatLess(s.distance, r.max_distance)
      THEN [s EXCEPT !.op = "exit", !.running = FALSE, !.stepped = FALSE]
      ELSE IF OutOfBounds(w, map)
      THEN [after EXCEPT !.running = FALSE]
      ELSE
        LET block_type == world_get_block(w, map[1], map[2], map[3])
        IN  IF IsHitBlock(w, block_type)
            THEN [after EXCEPT
                    !.running = FALSE,
                    !.result =
                      [hit |-> TRUE, block_type |-> block_type,
                       distance |-> distance,
                       position |->
                         [i \in 1..3 |->
                            IF ray_dir[i] = 0 THEN r.position[i]
                            ELSE r.position[i]
                                   + ray_dir[i] * UnitsOfFloat(distance)],
                       normal |-> face_normals[face + 1],
                       face |-> face]]
            ELSE after

-----------------------------------------------------------------------------
(* Specification of the traversal loop: casts along the axes, with the     *)
(* zero direction and with a direction shorter than NORMALIZE_MIN          *)

(* the iterations of one cast that the model follows *)
MaxIterations == 12

LoopWorlds == HoardWorlds \cup {world_create(MaxW, MaxH, MaxD)}

(* in a cell of the grid, on a face between two cells, and outside *)
LoopOrigins ==
  {<<Half, Half, Half>>, <<Unit + Half, Half, Half>>,
   <<Unit, Half, Half + Quarter>>, <<0 - Half, Half, Half>>}

LoopDirections ==
  {d \in {0 - DIR_ONE, 0, DIR_ONE} \X {0 - DIR_ONE, 0, DIR_ONE}
           \X {0 - DIR_ONE, 0, DIR_ONE} :
     Cardinality({i \in 1..3 : d[i] # 0}) <= 1}
  \cup {<<1, 0, 0>>}

(* REACH as a float, and the largest finite float *)
LoopMaxDistances == {FloatOfUnits(REACH), FLOAT_MAX}

(* the variables of the loop 54275760 iterations into the cast with the    *)
(* zero direction and max_distance FLT_MAX from an air cell of the grid,   *)
(* as the compiled raycaster.c has them: t_max 0x1.fffffcp+123 on the      *)
(* three axes, distance 0x1.fffffap+123, the X axis stepped last           *)
LateLoop(position) ==
  [LoopStart(position, <<0, 0, 0>>, FLOAT_MAX) EXCEPT
     !.op = "iteration", !.stepped = TRUE,
     !.t_max = [i \in 1..3 |-> Float(Pow2(F32_DIGITS) - 2, 100)],
     !.distance = Float(Pow2(F32_DIGITS) - 3, 100),
     !.face = FaceOf(1, 0),
     !.axis = 1,
     !.pre_t_max = [i \in 1..3 |->
                      Float(Pow2(F32_DIGITS) - (IF i = 1 THEN 3 ELSE 2), 100)],
     !.pre_distance = Float(Pow2(F32_DIGITS) - 3, 100)]

InitLoop ==
  /\ world \in LoopWorlds
  /\ player = player_create
  /\ ray \in [position : LoopOrigins, direction : LoopDirections,
              max_distance : LoopMaxDistances]
  /\ frame_time = 0
  /\ file = NoFile
  /\ terminal = terminal_init("posix")
  /\ game = game_init
  /\ \/ last = LoopStart(ray.position, ray.direction, ray.max_distance)
     \/ /\ ray.direction = <<0, 0, 0>> /\ ray.max_distance = FLOAT_MAX
        /\ InGrid(world, CellOf(ray.position))
        /\ world_get_block(world, Floor(ray.position[1]),
                           Floor(ray.position[2]),
                           Floor(ray.position[3])) = BLOCK_AIR
        /\ last = LateLoop(ray.position)
  /\ prev = None
  /\ steps = 0

(* one test of the while with one pass of its body; steps counts the       *)
(* passes that changed a variable of the loop, and a pass that changes     *)
(* none is a stuttering step                                               *)
Iterate ==
  /\ last.running
  /\ steps < MaxIterations
  /\ last' = LoopIteration(world, ray, last)
  /\ steps' = IF last' = last THEN steps ELSE steps + 1
  /\ UNCHANGED <<terminal, game, world, player, ray, frame_time, file, prev>>

NextLoop == Iterate

(* the loop runs until its test or a break ends it *)
SpecLoop == InitLoop /\ [][NextLoop]_vars /\ WF_vars(Iterate)

-----------------------------------------------------------------------------
(* Claims about the traversal loop (SpecLoop) *)

(* C26: cast_ray terminates for every origin, every direction, the zero    *)
(* vector included, and every finite max_distance: the loop runs only      *)
(* finitely many iterations (here: it ends, or it is still changing its    *)
(* variables when the model stops following it).                           *)
C26_LoopEnds == <>(~last.running \/ steps >= MaxIterations)

(* with max_distance REACH the loop ends within MaxIterations passes *)
LoopEndsWithinReach ==
  ray.max_distance = FloatOfUnits(REACH) ~> ~last.running

(* C27: in every iteration the axis stepped has the minimum t_max of the   *)
(* three, the distance does not decrease from one iteration to the next,   *)
(* and for any nonzero direction the step moves to a face-adjacent cell:   *)
(* exactly one coordinate changes, by exactly 1.                           *)
C27_StepsToAdjacentCell ==
  last.stepped =>
    /\ \A i \in 1..3 : ~FloatLess(last.pre_t_max[i], last.pre_t_max[last.axis])
    /\ ~FloatLess(last.distance, last.pre_distance)
    /\ ray.direction # <<0, 0, 0>> =>
         /\ Abs(last.map[last.axis] - last.pre_map[last.axis]) = 1
         /\ \A i \in 1..3 \ {last.axis} : last.map[i] = last.pre_map[i]

(* the first two parts of C27 *)
StepsAlongSmallest ==
  last.stepped =>
    /\ \A i \in 1..3 : ~FloatLess(last.pre_t_max[i], last.pre_t_max[last.axis])
    /\ ~FloatLess(last.distance, last.pre_distance)

(* a direction that vec3_normalize keeps: each step moves to a             *)
(* face-adjacent cell                                                      *)
KeptDirectionStepsToAdjacentCell ==
  (last.stepped /\ vec3_normalize(ray.direction) # <<0, 0, 0>>) =>
     /\ Abs(last.map[last.axis] - last.pre_map[last.axis]) = 1
     /\ \A i \in 1..3 \ {last.axis} : last.map[i] = last.pre_map[i]

-----------------------------------------------------------------------------
(* world.c and main.c: the clock of the world.  time_of_day is kept as the *)
(* bits of a float and advanced in float arithmetic; the light levels of   *)
(* world_update_lighting are counted in steps of 2^-LIGHT_BITS             *)

(* the float whose bits are n, for a positive normal float or zero *)
FloatOfBits(n) ==
  IF n = 0 THEN FLOAT_ZERO
  ELSE Float(Pow2(F32_FRACTION_BITS) + (n % Pow2(F32_FRACTION_BITS)),
             n \div Pow2(F32_FRACTION_BITS) - F32_BIAS - F32_FRACTION_BITS)

(* the bits of a positive normal float or zero *)
BitsOfFloat(f) ==
  IF f.m = 0 THEN 0
  ELSE (f.e + F32_BIAS + F32_FRACTION_BITS) * Pow2(F32_FRACTION_BITS)
         + (f.m - Pow2(F32_FRACTION_BITS))

(* f * k for a delta_time k of 1 or 2 *)
FloatTimes(f, k) == IF f.m = 0 THEN f ELSE FloatRound(f.m * k, f.e, 0, 0)

(* f - 1.0f for 1.0f <= f < 2^24, which is exact *)
FloatMinusOne(f) == FloatOf(f.m - Pow2(0 - f.e), f.e)

(* float time_speed = 0.001f, 0x1.0624dep-10 *)
TIME_SPEED == Float(8589935, -33)

LIGHT_BITS == 15
LIGHT_ONE == Pow2(LIGHT_BITS)

(* a float in [0, 1) in steps of 2^-LIGHT_BITS, truncated *)
LightOfFloat(f) ==
  IF f.m = 0 \/ f.e + LIGHT_BITS < 0 - F32_DIGITS THEN 0
  ELSE f.m \div Pow2(0 - (f.e + LIGHT_BITS))

(* utils.h: smoothstep(edge0, edge1, x), the cubic 3t^2 - 2t^3 of the      *)
(* clamped t = (x - edge0) / (edge1 - edge0)                               *)
smoothstep(edge0, edge1, x) ==
  LET t == clamp(Scale(x - edge0, LIGHT_ONE, edge1 - edge0), 0, LIGHT_ONE)
      t2 == (t * t) \div LIGHT_ONE
  IN  3 * t2 - (t2 * t) \div Pow2(LIGHT_BITS - 1)

(* world_update_lighting(world) *)
world_update_lighting(w) ==
  LET time == LightOfFloat(FloatOfBits(w.time_of_day))
      quarter == LIGHT_ONE \div 4
      rise(s) == (4 * s + LIGHT_ONE) \div 5
      top(s) == (s + 4 * LIGHT_ONE) \div 5
      light ==
        IF time < quarter THEN rise(smoothstep(0, quarter, time))
        ELSE IF time < 2 * quarter
        THEN top(smoothstep(quarter, 2 * quarter, time))
        ELSE IF time < 3 * quarter
        THEN top(LIGHT_ONE - smoothstep(2 * quarter, 3 * quarter, time))
        ELSE rise(LIGHT_ONE - smoothstep(3 * quarter, LIGHT_ONE, time))
  IN  [w EXCEPT !.sky_brightness = BitsOfFloat(FloatOf(light, 0 - LIGHT_BITS))]

(* the while loop of world_set_time *)
RECURSIVE WrapTime(_)
WrapTime(f) ==
  IF FloatLess(f, FLOAT_ONE) THEN f ELSE WrapTime(FloatMinusOne(f))

(* world_set_time(world, time), time a float that is not negative *)
world_set_time(w, time) ==
  world_update_lighting([w EXCEPT !.time_of_day = BitsOfFloat(WrapTime(time))])

(* game_update(game): the world and the player it leaves *)
game_update(w, p, delta_time) ==
  Then(world_set_time(w, FloatAdd(FloatOfBits(w.time_of_day),
                                  FloatTimes(TIME_SPEED, delta_time))),
       LAMBDA w1 :
  Then(world_update_lighting(w1), LAMBDA w2 :
    [world |-> w2, player |-> player_update(p, w2, delta_time).player]))

-----------------------------------------------------------------------------
(* Specification of the game loop of main: each frame is                   *)
(* game_process_input, game_update unless the game is paused by then, and  *)
(* game_render.  prev holds the game, world and player at the start of the *)
(* frame; last.calls lists the calls of the frame so far, in order         *)

(* the longest run of frames *)
MaxFrames == 2

(* the bytes a frame reads: nothing, or one key *)
FrameKeys ==
  {<<>>} \cup {<<Chr(c)>> : c \in {"q", "p", "r", "e", "i"}} \cup {<<CH_SPACE>>}

(* a loop body that goes from game_process_input to game_render *)
AfterInputRendering(g) == "game_render"

(* the step of main's loop body that follows game_process_input *)
AfterInput(g) == IF g.paused THEN "game_render" ELSE "game_update"

(* a flat floor, bare or with one block on it in front of the player *)
FrameWorlds ==
  {FloorWorld(0), world_set_block(FloorWorld(0), 2, 1, 1, BLOCK_DIRT)}

InitFrame ==
  /\ world \in FrameWorlds
  /\ \E pitch \in Pitches :
       player = [player_create EXCEPT
                   !.position = <<Unit, Unit, StandingZ(world)>>,
                   !.rotation = [pitch |-> pitch, yaw |-> 0],
                   !.grounded = TRUE]
  /\ ray = [position |-> <<0, 0, 0>>, direction |-> <<0, 0, 1>>,
            max_distance |-> REACH]
  /\ frame_time = 1
  /\ file = NoFile
  /\ terminal = terminal_init("posix")
  /\ game = game_init
  /\ last = [op |-> "show_title_screen", next |-> "game_process_input",
             calls |-> <<>>, input |-> <<>>]
  /\ prev = [game |-> game, world |-> world, player |-> player]
  /\ steps = 0

(* the head of the loop body and game_process_input(&game) *)
FrameProcessInput ==
  /\ last.next = "game_process_input"
  /\ game.running
  /\ steps < MaxFrames
  /\ \E in \in FrameKeys, delta_time \in FrameTimes :
       LET r == game_process_input(game, terminal, player, world, in,
                                   delta_time)
       IN  /\ frame_time' = delta_time
           /\ game' = r.game
           /\ terminal' = r.terminal
           /\ player' = r.player
           /\ world' = r.world
           /\ last' = [op |-> "game_process_input",
                       next |-> AfterInput(r.game),
                       calls |-> <<"game_process_input">> \o r.calls,
                       input |-> in]
  /\ prev' = [game |-> game, world |-> world, player |-> player]
  /\ steps' = steps + 1
  /\ UNCHANGED <<ray, file>>

(* if (!game.paused) game_update(&game) *)
FrameUpdate ==
  /\ last.next = "game_update"
  /\ LET r == game_update(world, player, frame_time)
     IN  /\ world' = r.world
         /\ player' = r.player
  /\ last' = [last EXCEPT
                !.op = "game_update",
                !.next = "game_render",
                !.calls = @ \o <<"game_update", "world_set_time",
                                 "world_update_lighting", "player_update">>]
  /\ UNCHANGED <<ray, frame_time, file, terminal, game, prev, steps>>

(* game_render(&game): what it draws, and renderer_present *)
FrameRender ==
  /\ last.next = "game_render"
  /\ last' = [last EXCEPT
                !.op = "game_render",
                !.next = "game_process_input",
                !.calls = @ \o <<"game_render", "renderer_clear">>
                            \o (IF game.paused THEN <<"show_pause_menu">>
                                ELSE <<"renderer_render_world",
                                       "renderer_render_hud">>)
                            \o <<"renderer_present">>]
  /\ UNCHANGED <<world, player, ray, frame_time, file, terminal, game, prev,
                 steps>>

NextFrame == FrameProcessInput \/ FrameUpdate \/ FrameRender

SpecFrame == InitFrame /\ [][NextFrame]_vars

-----------------------------------------------------------------------------
(* Claims about the game loop (SpecFrame) *)

Calls(name) == {i \in DOMAIN last.calls : last.calls[i] = name}

(* every call of a precedes every call of b in the frame *)
CalledBefore(a, b) == \A i \in Calls(a), j \in Calls(b) : i < j

Interactions == {"player_place_block", "player_break_block"}

FrameEnded == last.op = "game_render"

(* the frame was not paused: the game was not paused after its input *)
FrameNotPaused == FrameEnded /\ ~game.paused

(* C23: in every frame that is not paused, the physics step player_update  *)
(* runs before the block interactions player_place_block and               *)
(* player_break_block of the frame, and the rendering runs after both      *)
C23_PhysicsBeforeInteraction ==
  FrameNotPaused =>
    /\ \A c \in Interactions : CalledBefore("player_update", c)
    /\ \A c \in Interactions \cup {"player_update"} :
         CalledBefore(c, "renderer_render_world")

(* C23, as the loop runs: in every frame that is not paused the block      *)
(* interactions are made inside game_process_input, before the physics     *)
(* step; player_update runs once, after them and before the rendering, and *)
(* renderer_present is the last call of the frame: the order is input with *)
(* interaction, physics, render, present                                   *)
C23_InteractionBeforePhysics ==
  FrameNotPaused =>
    /\ last.calls[1] = "game_process_input"
    /\ Cardinality(Calls("player_update")) = 1
    /\ \A c \in Interactions :
         /\ CalledBefore("game_process_input", c)
         /\ CalledBefore(c, "game_update")
         /\ CalledBefore(c, "player_update")
    /\ CalledBefore("player_update", "game_render")
    /\ CalledBefore("game_render", "renderer_render_world")
    /\ CalledBefore("renderer_render_world", "renderer_present")
    /\ Calls("renderer_present") = {Len(last.calls)}

(* C23: a frame has ended in which a block interaction changed the grid    *)
(* and player_update ran                                                   *)
C23_InteractedThenStepped ==
  /\ FrameNotPaused
  /\ \E c \in Interactions : Calls(c) # {}
  /\ Calls("player_update") # {}
  /\ world.blocks # prev.world.blocks

KeysOf(in) == {in[i] : i \in 1..Len(in)}

(* the frame began with the game paused *)
BeganPaused == last.op # "show_title_screen" /\ prev.game.paused

(* C24: a frame in which the game is paused when its update is due changes *)
(* neither the world (grid, time_of_day, sky_brightness) nor the player;   *)
(* the input of a frame that began paused changes neither, and changes the *)
(* game only if 'p', 'r' or 'q' was pressed; and in a frame that began     *)
(* paused, the resuming one included, no block is broken: the grid and the *)
(* inventory stay as they were                                             *)
C24_PausedFramesChangeNothing ==
  /\ (last.op \in {"game_process_input", "game_render"} /\ game.paused) =>
       world = prev.world /\ player = prev.player
  /\ (BeganPaused /\ last.op = "game_process_input") =>
       /\ world = prev.world /\ player = prev.player
       /\ game # prev.game =>
            KeysOf(last.input) \cap {Chr("p"), Chr("r"), Chr("q")} # {}
  /\ BeganPaused =>
       /\ world.blocks = prev.world.blocks
       /\ player.inventory = prev.player.inventory
       /\ Calls("player_break_block") = {}

(* C24: a frame has ended that began paused and was resumed by an 'r'      *)
(* which, as game input, would have broken a block: the game is running    *)
(* again, the clock has moved on and the grid is as it was                 *)
C24_ResumedWithoutBreaking ==
  /\ FrameEnded
  /\ BeganPaused
  /\ last.input = <<Chr("r")>>
  /\ ~game.paused
  /\ player_break_block(prev.player, prev.world).world.blocks
       # prev.world.blocks
  /\ world.time_of_day # prev.world.time_of_day
  /\ world.blocks = prev.world.blocks

=============================================================================
